---- MODULE Spec2Model ----
(***************************************************************************)
(* json_exporter: the extraction-and-metric-construction pipeline.         *)
(*                                                                         *)
(* Text is a TLA+ string; Len, \o, SubSeq, Head and Tail act on it one     *)
(* character at a time.  A float64 is kept as an exact decimal             *)
(* mant * 10^exp (mant without trailing zeros), which identifies the       *)
(* double for the short literals drawn here, or as NaN / +-Inf.            *)
(***************************************************************************)
EXTENDS Integers, Sequences, FiniteSets, TLC

VARIABLES
    sanIn, sanOut, sanPc,           \* one call of SanitizeValue
    cfg,                            \* config.Config, loaded at start
    pc,                             \* probeHandler's position
    req,                            \* the query parameters of the request
    moduleName,                     \* the module name the handler settled on
    jsonMetrics, buildErr,          \* what CreateMetricsList returned
    fetched, fetchedData,           \* FetchJSON was called; the body it gave
    fetchErr,                       \* the error it returned, "" for none
    collected,                      \* the samples Collect sent on ch
    resp,                           \* the response written
    converter, extracted,           \* m.ValueConverter; the text extractValue gave
    handed, converted, convPc,      \* the text given to SanitizeValue; its result
    earlier,                        \* history: what the probe before this one served
    jqData, jqQuery, jqOut, jqPc,   \* one call of JQTransformer.Transform
    scConfig, scData,               \* '$' dialect: the metrics; the body of the last tick
    scReg, scCrashed,               \* the registry's gauges; a panic ended the process
    celData, celExpr, celJSON,      \* one call of extractValueCEL: its arguments
    celOut, celPc,                  \* what it returned
    intIn, intOut, intPc,           \* one call of SanitizeIntValue
    Local,                          \* time.Local, the process's default zone
    tzMetrics, tzData, tzSent,      \* the last Collect with timezones: its
                                    \* descriptors, its data, the samples sent
    fjCodes, fjStatus,              \* FetchJSON: valid_status_codes; resp.StatusCode
    fjOut, fjPc,                    \* what it returned
    dynMetrics, dynData,            \* Collect with dynamic keys: descriptors, data
    dynSent, dynBefore, dynRuns,    \* the samples of the last collection and of
                                    \* the one before it; collections so far
    hConfig, hResetOnTick,          \* harness: the scrapers; exp.ResetOnTick
    hReg, hPc, hData, hNext,        \* the registry; the ticker's position, the
                                    \* body it fetched, its next scraper
    hCrashed,                       \* a panic ended the process
    hResult, hSeen,                 \* the registry at the end of the last finished
                                    \* collection; what the last scrape was served
    mModules, mFetches,             \* multi-module Collect: the modules; what
                                    \* each endpoint answers in this collection
    mReg, mRan, mCrashed,           \* the registry; the scrapers that ran, as
                                    \* <<module, scraper>>; a panic ended it
    mCollected                      \* a collection has returned

sanVars == <<sanIn, sanOut, sanPc>>

probeVars == <<cfg, pc, req, moduleName, jsonMetrics, buildErr, fetched,
               fetchedData, fetchErr, collected, resp>>

convVars == <<converter, extracted, handed, converted, convPc>>

jqVars == <<jqData, jqQuery, jqOut, jqPc>>

scrapeVars == <<scConfig, scData, scReg, scCrashed>>

celVars == <<celData, celExpr, celJSON, celOut, celPc>>

\* the variables of the calls modelled on their own further down
intVars == <<intIn, intOut, intPc>>

tzVars == <<Local, tzMetrics, tzData, tzSent>>

fjVars == <<fjCodes, fjStatus, fjOut, fjPc>>

dynVars == <<dynMetrics, dynData, dynSent, dynBefore, dynRuns>>

harVars ==
    <<hConfig, hResetOnTick, hReg, hPc, hData, hNext, hCrashed, hResult, hSeen>>

modVars == <<mModules, mFetches, mReg, mRan, mCrashed, mCollected>>

restVars == <<celVars, intVars, tzVars, fjVars, dynVars, harVars, modVars>>

(***************************************************************************)
(* Bounds                                                                  *)
(***************************************************************************)
\* longest numeric literal drawn over NumAlphabet
MaxNumLen == 4

\* most metrics in a generated module
MaxMetrics == 2

\* most steps in a generated jq pipeline
MaxQueryLen == 4

(***************************************************************************)
(* Text helpers                                                            *)
(***************************************************************************)
At(s, i) == SubSeq(s, i, i)

From(s, i) == SubSeq(s, i, Len(s))

Digits == "0123456789"

IsDigit(c) == \E i \in 1..10 : At(Digits, i) = c

DigitVal(c) == (CHOOSE i \in 1..10 : At(Digits, i) = c) - 1

LowerLetters == "abcdefghijklmnopqrstuvwxyz"

UpperLetters == "ABCDEFGHIJKLMNOPQRSTUVWXYZ"

\* one character, lower-cased (ASCII letters only)
LowerChar(c) ==
    IF \E i \in 1..26 : At(UpperLetters, i) = c
    THEN At(LowerLetters, CHOOSE i \in 1..26 : At(UpperLetters, i) = c)
    ELSE c

UpperChar(c) ==
    IF \E i \in 1..26 : At(LowerLetters, i) = c
    THEN At(UpperLetters, CHOOSE i \in 1..26 : At(LowerLetters, i) = c)
    ELSE c

RECURSIVE ToLower(_)
ToLower(s) == IF s = "" THEN "" ELSE LowerChar(Head(s)) \o ToLower(Tail(s))

\* length of the longest prefix of s made of decimal digits
RECURSIVE DigitRun(_)
DigitRun(s) ==
    IF s # "" /\ IsDigit(Head(s)) THEN 1 + DigitRun(Tail(s)) ELSE 0

RECURSIVE Pow10(_)
Pow10(n) == IF n = 0 THEN 1 ELSE 10 * Pow10(n - 1)

\* the number a run of decimal digits denotes
RECURSIVE DigitsToNat(_)
DigitsToNat(s) ==
    IF s = "" THEN 0
    ELSE DigitVal(Head(s)) * Pow10(Len(s) - 1) + DigitsToNat(Tail(s))

RECURSIVE NumDigits(_)
NumDigits(n) == IF n < 10 THEN 1 ELSE 1 + NumDigits(n \div 10)

(***************************************************************************)
(* float64 values                                                          *)
(***************************************************************************)
NaN == [k |-> "nan", neg |-> FALSE, mant |-> 0, exp |-> 0]

Inf(neg) == [k |-> "inf", neg |-> neg, mant |-> 0, exp |-> 0]

\* mant * 10^exp with the trailing zeros of mant moved into exp
RECURSIVE Fin(_, _, _)
Fin(neg, mant, exp) ==
    IF mant = 0 THEN [k |-> "fin", neg |-> neg, mant |-> 0, exp |-> 0]
    ELSE IF mant % 10 = 0 THEN Fin(neg, mant \div 10, exp + 1)
    ELSE [k |-> "fin", neg |-> neg, mant |-> mant, exp |-> exp]

\* float64 range: above MaxFloat64 (1.7976931e308) ParseFloat reports ErrRange,
\* below the smallest denormal (E <= -325) it rounds to zero without an error.
\* Exact for mantissas of up to 8 significant digits.
MaxFloat64Exp == 308

MaxFloat64Lead == 17976931

MinFloat64Exp == -324

SciExp(v) == v.exp + NumDigits(v.mant) - 1

Overflows(v) ==
    /\ v.mant # 0
    /\ \/ SciExp(v) > MaxFloat64Exp
       \/ /\ SciExp(v) = MaxFloat64Exp
          /\ v.mant * Pow10(8 - NumDigits(v.mant)) > MaxFloat64Lead

Underflows(v) == v.mant # 0 /\ SciExp(v) < MinFloat64Exp

(***************************************************************************)
(* strconv.ParseFloat(s, 64), decimal grammar:                             *)
(*   [+-] digits [. digits] [(e|E) [+-] digits]   with a digit in the      *)
(* mantissa, or [+-](inf|infinity) or nan in any letter case.              *)
(* Hexadecimal mantissas (0x) and digit-separating underscores lie outside *)
(* the alphabets the inputs are drawn from.                                *)
(***************************************************************************)
HasSign(s) == s # "" /\ Head(s) \in {"+", "-"}

ParseSpecial(s) ==
    LET signed == HasSign(s)
        body == ToLower(IF signed THEN Tail(s) ELSE s)
    IN IF body \in {"inf", "infinity"}
       THEN [ok |-> TRUE, val |-> Inf(signed /\ Head(s) = "-")]
       ELSE IF ~signed /\ body = "nan"
       THEN [ok |-> TRUE, val |-> NaN]
       ELSE [ok |-> FALSE, val |-> Fin(FALSE, 0, 0)]

NoFloat == [ok |-> FALSE, val |-> Fin(FALSE, 0, 0)]

\* the value read, against the float64 range
RangeChecked(v) ==
    IF Overflows(v) THEN [ok |-> FALSE, val |-> Inf(v.neg)]
    ELSE IF Underflows(v) THEN [ok |-> TRUE, val |-> Fin(v.neg, 0, 0)]
    ELSE [ok |-> TRUE, val |-> v]

\* src follows the mantissa: nothing, or (e|E) [+-] digits
ParseExponent(neg, mantDigits, nFrac, src) ==
    IF mantDigits = "" THEN NoFloat
    ELSE IF src = "" THEN RangeChecked(Fin(neg, DigitsToNat(mantDigits), 0 - nFrac))
    ELSE IF Head(src) \notin {"e", "E"} THEN NoFloat
    ELSE LET expNeg == HasSign(Tail(src)) /\ Head(Tail(src)) = "-"
             expDigits == IF HasSign(Tail(src)) THEN Tail(Tail(src)) ELSE Tail(src)
         IN IF expDigits = "" \/ DigitRun(expDigits) # Len(expDigits) THEN NoFloat
            ELSE RangeChecked(Fin(neg, DigitsToNat(mantDigits),
                                  (IF expNeg THEN 0 - DigitsToNat(expDigits)
                                   ELSE DigitsToNat(expDigits)) - nFrac))

\* src follows the integer digits: an optional point and fraction digits
ParseFraction(neg, intDigits, src) ==
    IF src # "" /\ Head(src) = "."
    THEN ParseExponent(neg, intDigits \o SubSeq(Tail(src), 1, DigitRun(Tail(src))),
                       DigitRun(Tail(src)),
                       From(Tail(src), DigitRun(Tail(src)) + 1))
    ELSE ParseExponent(neg, intDigits, 0, src)

ParseMantissa(neg, m) ==
    ParseFraction(neg, SubSeq(m, 1, DigitRun(m)), From(m, DigitRun(m) + 1))

ParseDecimal(s) ==
    ParseMantissa(HasSign(s) /\ Head(s) = "-", IF HasSign(s) THEN Tail(s) ELSE s)

ParseFloat(s) ==
    IF ParseSpecial(s).ok THEN ParseSpecial(s) ELSE ParseDecimal(s)

(***************************************************************************)
(* strconv.ParseBool: exactly these twelve literals                        *)
(***************************************************************************)
BoolTrueLiterals == {"1", "t", "T", "true", "TRUE", "True"}

BoolFalseLiterals == {"0", "f", "F", "false", "FALSE", "False"}

\* variant: the words true and false in any letter case
ParseBool_AnyCase(s) ==
    IF s \in BoolTrueLiterals \/ ToLower(s) = "true" THEN [ok |-> TRUE, val |-> TRUE]
    ELSE IF s \in BoolFalseLiterals \/ ToLower(s) = "false"
    THEN [ok |-> TRUE, val |-> FALSE]
    ELSE [ok |-> FALSE, val |-> FALSE]

ParseBool(s) ==
    IF s \in BoolTrueLiterals THEN [ok |-> TRUE, val |-> TRUE]
    ELSE IF s \in BoolFalseLiterals THEN [ok |-> TRUE, val |-> FALSE]
    ELSE [ok |-> FALSE, val |-> FALSE]

(***************************************************************************)
(* SanitizeValue                                                           *)
(***************************************************************************)
NilText == "<nil>"

\* variant: no "<nil>" tier
SanitizeTiers_NoNilTier(s, f, b) ==
    IF f.ok THEN [val |-> f.val, err |-> FALSE]
    ELSE IF b.ok
    THEN [val |-> IF b.val THEN Fin(FALSE, 1, 0) ELSE Fin(FALSE, 0, 0),
          err |-> FALSE]
    ELSE [val |-> f.val, err |-> TRUE]

\* the tiers, on what ParseFloat and ParseBool return for s
SanitizeTiers(s, f, b) ==
    IF f.ok THEN [val |-> f.val, err |-> FALSE]
    ELSE IF b.ok
    THEN [val |-> IF b.val THEN Fin(FALSE, 1, 0) ELSE Fin(FALSE, 0, 0),
          err |-> FALSE]
    ELSE IF s = NilText THEN [val |-> NaN, err |-> FALSE]
    ELSE [val |-> f.val, err |-> TRUE]

SanitizeValue(s) == SanitizeTiers(s, ParseFloat(s), ParseBool(s))

(***************************************************************************)
(* Inputs of the sanitizer                                                 *)
(***************************************************************************)
NumAlphabet == {"0", "1", "2", ".", "e", "-"}

RECURSIVE Strings(_, _)
Strings(alphabet, n) ==
    IF n = 0 THEN {""}
    ELSE LET shorter == Strings(alphabet, n - 1)
         IN shorter \cup {p \o c : p \in shorter, c \in alphabet}

\* every upper/lower-case spelling of a word
RECURSIVE Spellings(_)
Spellings(w) ==
    IF w = "" THEN {""}
    ELSE {c \o r : c \in {LowerChar(Head(w)), UpperChar(Head(w))},
                   r \in Spellings(Tail(w))}

TestLiterals ==
    {"1234", "1234.5", "abcd", "{}", "[]", "", "''", NilText, "<NIL>", "nil",
     "t", "T", "f", "F", "y", "yes", "no", "+1", "1E2", "1e400", "1e-400",
     "2e308", "inf", "-Inf", "+Infinity", "infin", "NaN", "+nan", ".", "e1",
     "1.", ".5", "1e", "1 2", " 1", "1234abcd"}

SanInputs ==
    Strings(NumAlphabet, MaxNumLen) \cup Spellings("true")
        \cup Spellings("false") \cup TestLiterals

(***************************************************************************)
(* JSON documents.  data []byte is kept as the value json.Unmarshal gives  *)
(* for it, or as InvalidJSON when the bytes are not JSON.  An object is    *)
(* its members in key order (encoding/json marshals a map with its keys    *)
(* sorted); a number is an integer.                                        *)
(***************************************************************************)
InvalidJSON == [t |-> "invalid", v |-> 0]

JNull == [t |-> "null", v |-> 0]

JBool(b) == [t |-> "bool", v |-> b]

JNum(n) == [t |-> "num", v |-> n]

JStr(s) == [t |-> "str", v |-> s]

JArr(elems) == [t |-> "arr", v |-> elems]

JObj(members) == [t |-> "obj", v |-> members]

Member(k, v) == [k |-> k, v |-> v]

HasKey(obj, key) == \E i \in 1..Len(obj.v) : obj.v[i].k = key

Lookup(obj, key) == obj.v[CHOOSE i \in 1..Len(obj.v) : obj.v[i].k = key].v

RECURSIVE NatToText(_)
NatToText(n) ==
    IF n < 10 THEN At(Digits, n + 1)
    ELSE NatToText(n \div 10) \o At(Digits, (n % 10) + 1)

\* fmt's %v of a float64 holding an integer below 1e21
NumToText(n) == IF n < 0 THEN "-" \o NatToText(0 - n) ELSE NatToText(n)

\* json.Marshal, compact (strings here hold nothing that needs escaping)
RECURSIVE MarshalJSON(_)
MarshalJSON(j) ==
    LET Items(seq) ==
            LET RECURSIVE Go(_)
                Go(i) ==
                    IF i > Len(seq) THEN ""
                    ELSE (IF i > 1 THEN "," ELSE "")
                         \o (IF j.t = "obj"
                             THEN "\"" \o seq[i].k \o "\":" \o MarshalJSON(seq[i].v)
                             ELSE MarshalJSON(seq[i]))
                         \o Go(i + 1)
            IN Go(1)
    IN CASE j.t = "null" -> "null"
         [] j.t = "bool" -> IF j.v THEN "true" ELSE "false"
         [] j.t = "num" -> NumToText(j.v)
         [] j.t = "str" -> "\"" \o j.v \o "\""
         [] j.t = "arr" -> "[" \o Items(j.v) \o "]"
         [] j.t = "obj" -> "{" \o Items(j.v) \o "}"

(***************************************************************************)
(* k8s.io/client-go/util/jsonpath.  A template is kept as Parse leaves it: *)
(* ok = FALSE when Parse rejects the text, else the root's nodes, each a   *)
(* text node or a list of steps: .name, [*], [?(@.name == "lit")].         *)
(***************************************************************************)
BadTemplate == [ok |-> FALSE, nodes |-> <<>>]

Template(nodes) == [ok |-> TRUE, nodes |-> nodes]

TextNode(text) == [n |-> "text", text |-> text, steps |-> <<>>]

ListNode(steps) == [n |-> "list", text |-> "", steps |-> steps]

Field(name) == [s |-> "field", name |-> name, lit |-> ""]

Wildcard == [s |-> "wild", name |-> "", lit |-> ""]

Filter(name, lit) == [s |-> "filter", name |-> name, lit |-> lit]

\* a literal with no braces, and a one-list path
Static(text) == Template(<<TextNode(text)>>)

Path(steps) == Template(<<ListNode(steps)>>)

EvalOk(vals) == [err |-> FALSE, vals |-> vals]

EvalErr == [err |-> TRUE, vals |-> <<>>]

RECURSIVE Flatten(_)
Flatten(seqs) == IF seqs = <<>> THEN <<>> ELSE Head(seqs) \o Flatten(Tail(seqs))

\* evalField: the member of every input that is an object holding it;
\* "<name> is not found" when no input gives one
evalField(input, name) ==
    LET hits == Flatten([i \in 1..Len(input) |->
                    IF input[i].t = "obj" /\ HasKey(input[i], name)
                    THEN <<Lookup(input[i], name)>> ELSE <<>>])
    IN IF input = <<>> THEN EvalOk(<<>>)
       ELSE IF hits = <<>> THEN EvalErr
       ELSE EvalOk(hits)

\* evalWildcard: the elements of every array, the member values of every object
\* (no document here leads a wildcard to a string, whose bytes it would give)
evalWildcard(input) ==
    EvalOk(Flatten([i \in 1..Len(input) |->
              CASE input[i].t = "arr" -> input[i].v
                [] input[i].t = "obj" ->
                       [m \in 1..Len(input[i].v) |-> input[i].v[m].v]
                [] OTHER -> <<>>]))

\* one element against @.name == "lit": pass, drop or error.  The element's
\* field failing to resolve, or resolving to anything but a string (text/template's
\* Equal refuses to compare kinds that differ), is an error of the whole filter.
FilterVerdict(left, lit) ==
    IF left.err THEN "error"
    ELSE IF left.vals[1].t # "str" THEN "error"
    ELSE IF left.vals[1].v = lit THEN "pass" ELSE "drop"

FilterElem(elem, name, lit) == FilterVerdict(evalField(<<elem>>, name), lit)

\* variant: every element passes the filter
evalFilter_PassAll(input, name, lit) ==
    IF \E i \in 1..Len(input) : input[i].t # "arr" THEN EvalErr
    ELSE EvalOk(Flatten([i \in 1..Len(input) |-> input[i].v]))

evalFilter(input, name, lit) ==
    IF \E i \in 1..Len(input) :
           \/ input[i].t # "arr"
           \/ \E e \in 1..Len(input[i].v) :
                  FilterElem(input[i].v[e], name, lit) = "error"
    THEN EvalErr
    ELSE EvalOk(Flatten([i \in 1..Len(input) |->
                  Flatten([e \in 1..Len(input[i].v) |->
                      IF FilterElem(input[i].v[e], name, lit) = "pass"
                      THEN <<input[i].v[e]>> ELSE <<>>])]))

evalStep(input, step) ==
    CASE step.s = "field" -> evalField(input, step.name)
      [] step.s = "wild" -> evalWildcard(input)
      [] step.s = "filter" -> evalFilter(input, step.name, step.lit)

\* walk of a list node: each step feeds the next, the first error ends it
RECURSIVE evalList(_, _)
RECURSIVE evalNext(_, _)
evalNext(r, steps) == IF r.err THEN r ELSE evalList(r.vals, steps)

evalList(input, steps) ==
    IF steps = <<>> THEN EvalOk(input)
    ELSE evalNext(evalStep(input, Head(steps)), Tail(steps))

walk(data, node) ==
    IF node.n = "text" THEN EvalOk(<<JStr(node.text)>>)
    ELSE evalList(<<data>>, node.steps)

\* FindResults: one result list per node of the root, or the first error
ResultLists(rs) ==
    IF \E i \in 1..Len(rs) : rs[i].err THEN [err |-> TRUE, lists |-> <<>>]
    ELSE [err |-> FALSE, lists |-> [i \in 1..Len(rs) |-> rs[i].vals]]

FindResults(data, tmpl) ==
    ResultLists([i \in 1..Len(tmpl.nodes) |-> walk(data, tmpl.nodes[i])])

\* evalToText: a string as it is, a number and a boolean as fmt prints them
\* (an array or an object is marshalled by PrintResults)
evalToText(j) ==
    CASE j.t = "str" -> j.v
      [] j.t = "num" -> NumToText(j.v)
      [] j.t = "bool" -> IF j.v THEN "true" ELSE "false"
      [] OTHER -> MarshalJSON(j)

\* PrintResults without JSON output: every result of the node, a space between
RECURSIVE PrintResults(_)
PrintResults(results) ==
    IF results = <<>> THEN ""
    ELSE evalToText(Head(results))
         \o (IF Len(results) > 1 THEN " " ELSE "")
         \o PrintResults(Tail(results))

RECURSIVE PrintAll(_)
PrintAll(lists) ==
    IF lists = <<>> THEN "" ELSE PrintResults(Head(lists)) \o PrintAll(Tail(lists))

\* Execute: the text written for all nodes, or with JSON output one array of
\* results per node
ExecuteFound(found, enableJSONOutput) ==
    IF found.err THEN [err |-> TRUE, text |-> "", json |-> <<>>]
    ELSE IF enableJSONOutput
    THEN [err |-> FALSE, text |-> "",
          json |-> [i \in 1..Len(found.lists) |-> JArr(found.lists[i])]]
    ELSE [err |-> FALSE, text |-> PrintAll(found.lists), json |-> <<>>]

Execute(data, tmpl, enableJSONOutput) ==
    ExecuteFound(FindResults(data, tmpl), enableJSONOutput)

\* jsonpath.UnquoteExtend: the inside of a text wrapped in one kind of quote
Quotes == {"'", "\""}

Unquotable(s) ==
    /\ Len(s) >= 2
    /\ Head(s) \in Quotes
    /\ At(s, Len(s)) = Head(s)
    /\ \A i \in 2..(Len(s) - 1) : At(s, i) \notin Quotes \cup {"\\"}

UnquoteExtend(s) == IF Unquotable(s) THEN SubSeq(s, 2, Len(s) - 1) ELSE s

(***************************************************************************)
(* extractValue and its engines.  The result holds the text (scalar mode)  *)
(* or the top-level JSON values written to the buffer (JSON output mode).  *)
(***************************************************************************)
ExtractErr == [err |-> TRUE, text |-> "", json |-> <<>>]

\* what extractValueJSONPath returns for the buffer Execute wrote
ExtractOut(out, enableJSONOutput) ==
    IF out.err THEN ExtractErr
    ELSE IF enableJSONOutput THEN out
    ELSE [out EXCEPT !.text = UnquoteExtend(out.text)]

extractValueJSONPath(data, path, enableJSONOutput) ==
    IF data.t = "invalid" THEN ExtractErr
    ELSE IF ~path.ok THEN ExtractErr
    ELSE ExtractOut(Execute(data, path, enableJSONOutput), enableJSONOutput)

(***************************************************************************)
(* extractValueCEL.  An expression is a variable with field selections,    *)
(* or a text that does not parse.                                          *)
(***************************************************************************)
CelBad == [ok |-> FALSE, name |-> "", fields |-> <<>>]

CelSelect(name, fields) == [ok |-> TRUE, name |-> name, fields |-> fields]

\* json.Unmarshal into map[string]any: an object, or null for the nil map
CelUnmarshals(data) == data.t \in {"obj", "null"}

\* env.Compile: the text parses and its variable is declared, that is, a key
\* of the document
CelCompiles(data, expression) ==
    /\ expression.ok
    /\ data.t = "obj"
    /\ HasKey(data, expression.name)

\* prg.Eval: the selections, each on a map that holds the field
RECURSIVE CelEval(_, _, _)
CelEval(v, fields, i) ==
    IF i > Len(fields) THEN EvalOk(<<v>>)
    ELSE IF v.t # "obj" THEN EvalErr
    ELSE IF ~HasKey(v, fields[i]) THEN EvalErr
    ELSE CelEval(Lookup(v, fields[i]), fields, i + 1)

\* the value written: valueToJSON with JSON output, fmt's %v without (a list
\* or a map is kept as its value)
CelWritten(out, enableJSONOutput) ==
    IF out.err THEN ExtractErr
    ELSE IF enableJSONOutput
    THEN [err |-> FALSE, text |-> "", json |-> out.vals]
    ELSE [err |-> FALSE, text |-> evalToText(out.vals[1]), json |-> <<>>]

\* on a compile failure the function returns "" with the err of cel.NewEnv,
\* which is nil there
extractValueCEL(data, expression, enableJSONOutput) ==
    IF ~CelUnmarshals(data) THEN ExtractErr
    ELSE IF ~CelCompiles(data, expression)
    THEN [err |-> FALSE, text |-> "", json |-> <<>>]
    ELSE CelWritten(CelEval(Lookup(data, expression.name), expression.fields, 1),
                    enableJSONOutput)

EngineTypeJSONPath == "jsonpath"

EngineTypeCEL == "cel"

extractValue(engine, data, path, enableJSONOutput) ==
    CASE engine = EngineTypeJSONPath ->
             extractValueJSONPath(data, path, enableJSONOutput)
      [] engine = EngineTypeCEL ->
             extractValueCEL(data, path, enableJSONOutput)
      [] OTHER -> ExtractErr

(***************************************************************************)
(* strconv.ParseInt(s, 10, 64): an optional sign and decimal digits, in    *)
(* the int64 range.  The value is kept as its sign and its digits without  *)
(* leading zeros, so no width is lost.                                     *)
(***************************************************************************)
MaxInt64Digits == "9223372036854775807"

MinInt64Digits == "9223372036854775808"

RECURSIVE StripZeros(_)
StripZeros(d) == IF Len(d) > 1 /\ Head(d) = "0" THEN StripZeros(Tail(d)) ELSE d

\* a > b for digit texts without leading zeros
RECURSIVE DigitsGreater(_, _)
DigitsGreater(a, b) ==
    IF Len(a) # Len(b) THEN Len(a) > Len(b)
    ELSE IF a = "" THEN FALSE
    ELSE IF Head(a) # Head(b) THEN DigitVal(Head(a)) > DigitVal(Head(b))
    ELSE DigitsGreater(Tail(a), Tail(b))

ParseInt(s) ==
    LET neg == HasSign(s) /\ Head(s) = "-"
        body == IF HasSign(s) THEN Tail(s) ELSE s
        d == StripZeros(body)
        zero == [neg |-> FALSE, digits |-> "0"]
    IN IF body = "" \/ DigitRun(body) # Len(body) THEN [ok |-> FALSE, val |-> zero]
       ELSE IF DigitsGreater(d, IF neg THEN MinInt64Digits ELSE MaxInt64Digits)
       THEN [ok |-> FALSE, val |-> zero]
       ELSE [ok |-> TRUE, val |-> [neg |-> neg /\ d # "0", digits |-> d]]

SanitizeIntValue(s) ==
    LET r == ParseInt(s) IN [val |-> r.val, err |-> ~r.ok]

(***************************************************************************)
(* Configuration (config.Metric, config.Module) and descriptors            *)
(***************************************************************************)
ValueScrape == "value"

ObjectScrape == "object"

ValueTypeGauge == "gauge"

ValueTypeCounter == "counter"

\* the zero value of a path field
EmptyPath == Template(<<>>)

NoLabels == [l \in {} |-> EmptyPath]

Metric(name, type, path, labels, values) ==
    [Name |-> name, Engine |-> EngineTypeJSONPath, Path |-> path,
     Labels |-> labels, Type |-> type, ValueType |-> "untyped",
     EpochTimestamp |-> EmptyPath, Help |-> name, Values |-> values]

WithEpochTimestamp(metric, path) == [metric EXCEPT !.EpochTimestamp = path]

\* variant: the two names joined without the underscore
MakeMetricName_NoUnderscore(a, b) == a \o b

MakeMetricName(a, b) == a \o "_" \o b

\* the orders a range over a Go map may visit its keys in
Perms(S) ==
    {p \in [1..Cardinality(S) -> S] : \A i, j \in 1..Cardinality(S) :
                                          i # j => p[i] # p[j]}

PromValueType(vt) ==
    CASE vt = ValueTypeGauge -> "GaugeValue"
      [] vt = ValueTypeCounter -> "CounterValue"
      [] OTHER -> "UntypedValue"

NewDesc(fqName, help, variableLabels) ==
    [fqName |-> fqName, help |-> help, variableLabels |-> variableLabels]

\* variant: the label paths appended in the reverse of the label names' order
JSONMetric_ReversedPaths(metric, name, valuePath, order) ==
    [Type |-> metric.Type,
     Desc |-> NewDesc(name, metric.Help, [i \in 1..Len(order) |-> order[i]]),
     EngineType |-> metric.Engine,
     KeyJSONPath |-> metric.Path,
     ValueJSONPath |-> valuePath,
     LabelsJSONPaths |-> [i \in 1..Len(order) |->
                             metric.Labels[order[Len(order) + 1 - i]]],
     ValueType |-> PromValueType(metric.ValueType),
     EpochTimestampJSONPath |-> metric.EpochTimestamp]

\* the JSONMetric literal both branches fill in; order is the order the range
\* over metric.Labels visited the labels in
JSONMetric(metric, name, valuePath, order) ==
    [Type |-> metric.Type,
     Desc |-> NewDesc(name, metric.Help, [i \in 1..Len(order) |-> order[i]]),
     EngineType |-> metric.Engine,
     KeyJSONPath |-> metric.Path,
     ValueJSONPath |-> valuePath,
     LabelsJSONPaths |-> [i \in 1..Len(order) |-> metric.Labels[order[i]]],
     ValueType |-> PromValueType(metric.ValueType),
     EpochTimestampJSONPath |-> metric.EpochTimestamp]

\* the descriptor sequences one metric may append: one per visiting order of
\* its Values, each sub-value with its own visiting order of the Labels
RECURSIVE ObjectDescs(_, _)
ObjectDescs(metric, subNames) ==
    IF subNames = <<>> THEN {<<>>}
    ELSE {<<JSONMetric(metric, MakeMetricName(metric.Name, Head(subNames)),
                       metric.Values[Head(subNames)], order)>> \o rest :
            order \in Perms(DOMAIN metric.Labels),
            rest \in ObjectDescs(metric, Tail(subNames))}

MetricDescs(metric) ==
    IF metric.Type = ValueScrape
    THEN {<<JSONMetric(metric, metric.Name, EmptyPath, order)>> :
            order \in Perms(DOMAIN metric.Labels)}
    ELSE UNION {ObjectDescs(metric, subNames) :
                  subNames \in Perms(DOMAIN metric.Values)}

NoError == [failed |-> FALSE, type |-> "", name |-> ""]

UnknownMetricType(metric) ==
    [failed |-> TRUE, type |-> metric.Type, name |-> metric.Name]

\* variant: an unknown type returns the descriptors built so far
RECURSIVE BuildMetrics_Partial(_, _)
BuildMetrics_Partial(configured, metrics) ==
    IF configured = <<>> THEN {[metrics |-> metrics, err |-> NoError]}
    ELSE IF Head(configured).Type \notin {ValueScrape, ObjectScrape}
    THEN {[metrics |-> metrics, err |-> UnknownMetricType(Head(configured))]}
    ELSE UNION {BuildMetrics_Partial(Tail(configured), metrics \o descs) :
                  descs \in MetricDescs(Head(configured))}

RECURSIVE BuildMetrics(_, _)
BuildMetrics(configured, metrics) ==
    IF configured = <<>> THEN {[metrics |-> metrics, err |-> NoError]}
    ELSE LET metric == Head(configured)
         IN IF metric.Type \notin {ValueScrape, ObjectScrape}
            THEN {[metrics |-> <<>>, err |-> UnknownMetricType(metric)]}
            ELSE UNION {BuildMetrics(Tail(configured), metrics \o descs) :
                          descs \in MetricDescs(metric)}

\* CreateMetricsList: every result the call may return, one per order in which
\* the ranges over the Labels and Values maps visit their keys
CreateMetricsList(c) == BuildMetrics(c.Metrics, <<>>)

(***************************************************************************)
(* Collect                                                                 *)
(***************************************************************************)
\* extractLabels: one value per path, the empty string where extraction fails
LabelText(r) == IF r.err THEN "" ELSE r.text

extractLabels(engine, data, paths) ==
    [i \in 1..Len(paths) |-> LabelText(extractValue(engine, data, paths[i], FALSE))]

NoTimestamp == [set |-> FALSE, ms |-> [neg |-> FALSE, digits |-> "0"]]

\* prometheus.MustNewConstMetric
ConstMetric(m, value, labelValues) ==
    [desc |-> m.Desc, valueType |-> m.ValueType, value |-> value,
     labelValues |-> labelValues, ts |-> NoTimestamp]

\* prometheus.NewMetricWithTimestamp, unless the epoch text is no int64
StampEpoch(pm, epochTime) ==
    IF epochTime.err THEN pm
    ELSE [pm EXCEPT !.ts = [set |-> TRUE, ms |-> epochTime.val]]

StampText(pm, ts) == IF ts.err THEN pm ELSE StampEpoch(pm, SanitizeIntValue(ts.text))

\* variant: a timestamp that cannot be read stamps the sample with the epoch
timestampMetric_EpochOnFailure(m, data, pm) ==
    IF m.EpochTimestampJSONPath = EmptyPath THEN pm
    ELSE IF StampText(pm, extractValue(m.EngineType, data,
                                       m.EpochTimestampJSONPath, FALSE)) = pm
    THEN [pm EXCEPT !.ts = [set |-> TRUE, ms |-> [neg |-> FALSE, digits |-> "0"]]]
    ELSE StampText(pm, extractValue(m.EngineType, data,
                                    m.EpochTimestampJSONPath, FALSE))

timestampMetric(m, data, pm) ==
    IF m.EpochTimestampJSONPath = EmptyPath THEN pm
    ELSE StampText(pm, extractValue(m.EngineType, data, m.EpochTimestampJSONPath, FALSE))

\* variant: no sample when the extraction of a label fails
SendFloat_DropOnLabelFailure(m, data, floatValue) ==
    IF floatValue.err THEN <<>>
    ELSE IF \E i \in 1..Len(m.LabelsJSONPaths) :
               extractValue(m.EngineType, data, m.LabelsJSONPaths[i], FALSE).err
    THEN <<>>
    ELSE <<timestampMetric(m, data,
              ConstMetric(m, floatValue.val,
                  extractLabels(m.EngineType, data, m.LabelsJSONPaths)))>>

\* the sample for an extracted value: none when extraction or SanitizeValue
\* failed (the error is logged and the loop continues)
SendFloat(m, data, floatValue) ==
    IF floatValue.err THEN <<>>
    ELSE <<timestampMetric(m, data,
              ConstMetric(m, floatValue.val,
                  extractLabels(m.EngineType, data, m.LabelsJSONPaths)))>>

SendValue(m, data, value) ==
    IF value.err THEN <<>> ELSE SendFloat(m, data, SanitizeValue(value.text))

\* the body of the loop over jsonData for one element
CollectElement(m, elem) ==
    SendValue(m, elem, extractValue(m.EngineType, elem, m.ValueJSONPath, FALSE))

\* variant: the loop over jsonData ends at the first element that gives no sample
RECURSIVE CollectElements_Break(_, _)
CollectElements_Break(m, jsonData) ==
    IF jsonData = <<>> THEN <<>>
    ELSE IF CollectElement(m, Head(jsonData)) = <<>> THEN <<>>
    ELSE CollectElement(m, Head(jsonData)) \o CollectElements_Break(m, Tail(jsonData))

\* the loop over jsonData
CollectElements(m, jsonData) ==
    Flatten([e \in 1..Len(jsonData) |-> CollectElement(m, jsonData[e])])

\* the object branch, on the extracted JSON text: json.Unmarshal into
\* []interface{} takes one top-level array
CollectObject(m, values) ==
    IF values.err THEN <<>>
    ELSE IF Len(values.json) # 1 THEN <<>>
    ELSE IF values.json[1].t # "arr" THEN <<>>
    ELSE CollectElements(m, values.json[1].v)

\* the body of the loop over JSONMetrics for one descriptor
CollectMetric(m, data) ==
    CASE m.Type = ValueScrape ->
             SendValue(m, data, extractValue(m.EngineType, data, m.KeyJSONPath, FALSE))
      [] m.Type = ObjectScrape ->
             CollectObject(m, extractValue(m.EngineType, data, m.KeyJSONPath, TRUE))
      [] OTHER -> <<>>

\* variant: the loop over JSONMetrics ends at the first descriptor without a sample
RECURSIVE Collect_Abort(_, _)
Collect_Abort(JSONMetrics, data) ==
    IF JSONMetrics = <<>> THEN <<>>
    ELSE IF CollectMetric(Head(JSONMetrics), data) = <<>> THEN <<>>
    ELSE CollectMetric(Head(JSONMetrics), data) \o Collect_Abort(Tail(JSONMetrics), data)

\* Collect: the samples sent on ch, in order
RECURSIVE Collect(_, _)
Collect(JSONMetrics, data) ==
    IF JSONMetrics = <<>> THEN <<>>
    ELSE CollectMetric(Head(JSONMetrics), data) \o Collect(Tail(JSONMetrics), data)

(***************************************************************************)
(* The example of the README: examples/data.json and examples/config.yml   *)
(***************************************************************************)
ExampleElement(id, count, someBoolean, state) ==
    JObj(<<Member("count", JNum(count)), Member("id", JStr(id)),
           Member("some_boolean", JBool(someBoolean)),
           Member("state", JStr(state))>>)

ExampleData ==
    JObj(<<Member("counter", JNum(1234)),
           Member("location", JStr("mars")),
           Member("values", JArr(<<ExampleElement("id-A", 1, TRUE, "ACTIVE"),
                                   ExampleElement("id-B", 2, TRUE, "INACTIVE"),
                                   ExampleElement("id-C", 3, FALSE, "ACTIVE")>>))>>)

ExampleGlobalValue ==
    Metric("example_global_value", ValueScrape, Path(<<Field("counter")>>),
           [l \in {"environment", "location"} |->
               IF l = "environment" THEN Static("beta")
               ELSE Template(<<TextNode("planet-"),
                               ListNode(<<Field("location")>>)>>)],
           NoLabels)

ExampleValue ==
    Metric("example_value", ObjectScrape,
           Path(<<Field("values"), Filter("state", "ACTIVE")>>),
           [l \in {"environment", "id"} |->
               IF l = "environment" THEN Static("beta") ELSE Path(<<Field("id")>>)],
           [v \in {"active", "count", "boolean"} |->
               CASE v = "active" -> Static("1")
                 [] v = "count" -> Path(<<Field("count")>>)
                 [] v = "boolean" -> Path(<<Field("some_boolean")>>)])

ExampleModule == [Metrics |-> <<ExampleGlobalValue, ExampleValue>>]

(***************************************************************************)
(* Documents a target may serve                                            *)
(***************************************************************************)
\* the example with one member of values[1] (id-B) replaced or removed
WithSecond(member, present) ==
    JObj(<<Member("counter", JNum(1234)),
           Member("location", JStr("mars")),
           Member("values",
               JArr(<<ExampleElement("id-A", 1, TRUE, "ACTIVE"),
                      JObj((IF present THEN <<member>> ELSE <<>>)
                           \o <<Member("id", JStr("id-B")),
                                Member("some_boolean", JBool(TRUE)),
                                Member("state", JStr("ACTIVE"))>>),
                      ExampleElement("id-C", 3, FALSE, "ACTIVE")>>))>>)

Documents ==
    <<ExampleData,
      \* values[1].count is not a number
      WithSecond(Member("count", JStr("n/a")), TRUE),
      \* values[1] has no count
      WithSecond(Member("count", JNum(0)), FALSE),
      \* counter is not a number, values is not an array
      JObj(<<Member("counter", JStr("abcd")), Member("values", JNum(0))>>),
      \* no counter, no elements
      JObj(<<Member("location", JStr("mars")), Member("values", JArr(<<>>))>>),
      \* a quoted number, numbers as elements
      JObj(<<Member("counter", JStr("'12'")),
             Member("values", JArr(<<JNum(7), JNum(8)>>))>>),
      \* no location, and an element without an id
      JObj(<<Member("counter", JNum(5)),
             Member("values",
                 JArr(<<JObj(<<Member("count", JNum(4)),
                               Member("state", JStr("ACTIVE"))>>)>>))>>),
      InvalidJSON>>

(***************************************************************************)
(* Configurations                                                          *)
(***************************************************************************)
OneLabel(name, path) == [l \in {name} |-> path]

MetricPool ==
    <<Metric("counter", ValueScrape, Path(<<Field("counter")>>),
             [l \in {"env", "loc"} |->
                 IF l = "env" THEN Static("beta") ELSE Path(<<Field("location")>>)],
             NoLabels),
      \* a scalar path with several matches
      Metric("counts", ValueScrape,
             Path(<<Field("values"), Wildcard, Field("count")>>),
             NoLabels, NoLabels),
      Metric("item", ObjectScrape, Path(<<Field("values"), Wildcard>>),
             OneLabel("id", Path(<<Field("id")>>)),
             [v \in {"count", "flag"} |->
                 IF v = "count" THEN Path(<<Field("count")>>)
                 ELSE Path(<<Field("some_boolean")>>)]),
      Metric("active", ObjectScrape,
             Path(<<Field("values"), Filter("state", "ACTIVE")>>),
             OneLabel("id", Path(<<Field("id")>>)),
             [v \in {"count"} |-> Path(<<Field("count")>>)]),
      \* an object metric without values, a path Parse rejects, an unknown type
      Metric("empty", ObjectScrape, Path(<<Field("values")>>), NoLabels, NoLabels),
      Metric("broken", ValueScrape, BadTemplate, NoLabels, NoLabels),
      Metric("typo", "objects", Path(<<Field("values")>>), NoLabels,
             [v \in {"count"} |-> Path(<<Field("count")>>)]),
      \* a static value stamped with the document's counter
      WithEpochTimestamp(Metric("stamped", ValueScrape, Static("1"), NoLabels,
                                NoLabels),
                         Path(<<Field("counter")>>))>>

RECURSIVE IndexSeqs(_, _)
IndexSeqs(n, len) ==
    IF len = 0 THEN {<<>>}
    ELSE LET shorter == IndexSeqs(n, len - 1)
         IN shorter \cup {Append(p, i) : p \in {q \in shorter : Len(q) = len - 1},
                                         i \in 1..n}

ModuleOf(ixs) == [Metrics |-> [i \in 1..Len(ixs) |-> MetricPool[ixs[i]]]]

\* a configuration with a generated default module
ConfigOf(ixs) == [m \in {"default"} |-> ModuleOf(ixs)]

\* the configuration of the README
ExampleConfig == [m \in {"default"} |-> ExampleModule]

\* a configuration without a default module
FooConfig == [m \in {"foo"} |-> ModuleOf(<<>>)]

\* a metric naming an engine
WithEngine(metric, engine) == [metric EXCEPT !.Engine = engine]

\* a default module whose second metric names an engine that does not exist
XPathConfig ==
    [m \in {"default"} |->
        [Metrics |-> <<MetricPool[1],
                       WithEngine(Metric("xpath_counter", ValueScrape,
                                         Path(<<Field("counter")>>),
                                         NoLabels, NoLabels),
                                  "xpath")>>]]

ModuleParams == {"", "default", "absent"}

TargetParams == {"", "http://target/data.json"}

(***************************************************************************)
(* The metric set promhttp serves from the probe's registry                *)
(***************************************************************************)
LabelPairs(sample) ==
    {<<sample.desc.variableLabels[i], sample.labelValues[i]>> :
        i \in 1..Len(sample.labelValues)}

\* Gather refuses a metric collected before with the same name and label values
GatherFails(samples) ==
    \E i, j \in 1..Len(samples) :
        /\ i < j
        /\ samples[i].desc.fqName = samples[j].desc.fqName
        /\ LabelPairs(samples[i]) = LabelPairs(samples[j])

StatusOK == 200

StatusBadRequest == 400

StatusInternalServerError == 500

StatusServiceUnavailable == 503

NoResponse == [status |-> 0, body |-> <<>>]

(***************************************************************************)
(* probeHandler                                                            *)
(***************************************************************************)
ProbeIdle ==
    /\ pc = "idle"
    /\ req = [module |-> "", target |-> ""]
    /\ moduleName = ""
    /\ jsonMetrics = <<>>
    /\ buildErr = NoError
    /\ fetched = FALSE
    /\ fetchedData = InvalidJSON
    /\ fetchErr = ""
    /\ collected = <<>>
    /\ resp = NoResponse

ProbeInit ==
    /\ \/ \E ixs \in IndexSeqs(Len(MetricPool), MaxMetrics) : cfg = ConfigOf(ixs)
       \/ cfg = ExampleConfig
       \/ cfg = FooConfig
       \/ cfg = XPathConfig
    /\ ProbeIdle

\* a request arrives
ProbeRequest ==
    /\ pc = "idle"
    /\ \E m \in ModuleParams, t \in TargetParams :
           req' = [module |-> m, target |-> t]
    /\ pc' = "module"
    /\ UNCHANGED <<cfg, moduleName, jsonMetrics, buildErr, fetched, fetchedData, fetchErr, collected, resp>>

\* the module parameter taken as it is
ProbeModule_NoDefault ==
    /\ pc = "module"
    /\ moduleName' = req.module
    /\ IF req.module \notin DOMAIN cfg
       THEN resp' = [status |-> StatusBadRequest, body |-> <<>>] /\ pc' = "done"
       ELSE resp' = resp /\ pc' = "build"
    /\ UNCHANGED <<cfg, req, jsonMetrics, buildErr, fetched, fetchedData, fetchErr, collected>>

\* moduleName lookup, "default" when the parameter is empty
ProbeModule ==
    /\ pc = "module"
    /\ LET name == IF req.module = "" THEN "default" ELSE req.module
       IN /\ moduleName' = name
          /\ IF name \notin DOMAIN cfg
             THEN resp' = [status |-> StatusBadRequest, body |-> <<>>] /\ pc' = "done"
             ELSE resp' = resp /\ pc' = "build"
    /\ UNCHANGED <<cfg, req, jsonMetrics, buildErr, fetched, fetchedData, fetchErr, collected>>

\* CreateMetricsList; an error is logged and the handler goes on
ProbeBuild ==
    /\ pc = "build"
    /\ \E r \in CreateMetricsList(cfg[moduleName]) :
           jsonMetrics' = r.metrics /\ buildErr' = r.err
    /\ pc' = "target"
    /\ UNCHANGED <<cfg, req, moduleName, fetched, fetchedData, fetchErr, collected, resp>>

\* the target handed to the fetcher unchecked
ProbeTarget_NoCheck ==
    /\ pc = "target"
    /\ pc' = "fetch"
    /\ UNCHANGED <<cfg, req, moduleName, jsonMetrics, buildErr, fetched, fetchedData,
                   fetchErr, collected, resp>>

ProbeTarget ==
    /\ pc = "target"
    /\ IF req.target = ""
       THEN resp' = [status |-> StatusBadRequest, body |-> <<>>] /\ pc' = "done"
       ELSE resp' = resp /\ pc' = "fetch"
    /\ UNCHANGED <<cfg, req, moduleName, jsonMetrics, buildErr, fetched, fetchedData, fetchErr, collected>>

\* what makes a fetch fail: client.Do's error, a status that is not accepted,
\* a body that cannot be read
FetchFailures == {"connection", "tls", "cancelled", "timeout", "status", "read"}

\* FetchJSON fails
ProbeFetchError ==
    /\ pc = "fetch"
    /\ fetched' = TRUE
    /\ \E e \in FetchFailures : fetchErr' = e
    /\ resp' = [status |-> StatusServiceUnavailable, body |-> <<>>]
    /\ pc' = "done"
    /\ UNCHANGED <<cfg, req, moduleName, jsonMetrics, buildErr, fetchedData, collected>>

\* FetchJSON returns a body
ProbeFetch ==
    /\ pc = "fetch"
    /\ fetched' = TRUE
    /\ \E d \in 1..Len(Documents) : fetchedData' = Documents[d]
    /\ pc' = "serve"
    /\ UNCHANGED <<cfg, req, moduleName, jsonMetrics, buildErr, fetchErr, collected,
                   resp>>

\* history of the probe that returned last
NoEarlier == [status |-> 0, data |-> InvalidJSON, collected |-> <<>>]

\* a registry that outlives the request
ProbeServe_SharedRegistry ==
    /\ pc = "serve"
    /\ collected' = earlier.collected \o Collect(jsonMetrics, fetchedData)
    /\ resp' = IF GatherFails(collected')
               THEN [status |-> StatusInternalServerError, body |-> <<>>]
               ELSE [status |-> StatusOK, body |-> collected']
    /\ pc' = "done"
    /\ UNCHANGED <<cfg, req, moduleName, jsonMetrics, buildErr, fetched, fetchedData,
                   fetchErr>>

\* the collector is registered and the registry served: Gather runs Collect
ProbeServe ==
    /\ pc = "serve"
    /\ collected' = Collect(jsonMetrics, fetchedData)
    /\ resp' = IF GatherFails(collected')
               THEN [status |-> StatusInternalServerError, body |-> <<>>]
               ELSE [status |-> StatusOK, body |-> collected']
    /\ pc' = "done"
    /\ UNCHANGED <<cfg, req, moduleName, jsonMetrics, buildErr, fetched, fetchedData,
                   fetchErr>>

\* the handler returns; nothing of the probe is kept
ProbeReturn ==
    /\ pc = "done"
    /\ pc' = "idle"
    /\ req' = [module |-> "", target |-> ""]
    /\ moduleName' = ""
    /\ jsonMetrics' = <<>>
    /\ buildErr' = NoError
    /\ fetched' = FALSE
    /\ fetchedData' = InvalidJSON
    /\ fetchErr' = ""
    /\ collected' = <<>>
    /\ resp' = NoResponse
    /\ UNCHANGED cfg

(***************************************************************************)
(* Value conversion in the element loop of Collect                         *)
(***************************************************************************)
\* a Go map as the set of its <<key, value>> entries; a nil map is the empty one
MapHas(m, k) == \E e \in m : e[1] = k

MapGet(m, k) == (CHOOSE e \in m : e[1] = k)[2]

MappedOr(value_mappings, value) ==
    IF MapHas(value_mappings, value) THEN MapGet(value_mappings, value) ELSE value

ConvertValue_CaseSensitive(valueConverter, valueJSONPath, value) ==
    IF MapHas(valueConverter, valueJSONPath)
    THEN MappedOr(MapGet(valueConverter, valueJSONPath), value)
    ELSE value

\* the text is lower-cased as soon as the value path has mappings
ConvertValue(valueConverter, valueJSONPath, value) ==
    IF MapHas(valueConverter, valueJSONPath)
    THEN MappedOr(MapGet(valueConverter, valueJSONPath), ToLower(value))
    ELSE value

StatePath == "{.state}"

ActiveMappings == {<<"active", "1">>}

ActiveConverter == {<<StatePath, ActiveMappings>>}

Converters ==
    { {},
      ActiveConverter,
      {<<StatePath, {<<"active", "1">>, <<"inactive", "0">>}>>},
      \* mappings of another path, a key that is not lower-case
      {<<"{.count}", ActiveMappings>>},
      {<<StatePath, {<<"Active", "1">>}>>} }

ExtractedTexts ==
    Spellings("active") \cup Spellings("true") \cup Spellings("<nil>")
        \cup {"INACTIVE", "inactive", "unknown", "12", "1E2", "1e2", "1", ""}

ConvertInit ==
    /\ converter \in Converters
    /\ extracted \in ExtractedTexts
    /\ handed = ""
    /\ converted = [val |-> Fin(FALSE, 0, 0), err |-> FALSE]
    /\ convPc = "call"

ConvertUnused ==
    /\ converter = {}
    /\ extracted = ""
    /\ handed = ""
    /\ converted = [val |-> Fin(FALSE, 0, 0), err |-> FALSE]
    /\ convPc = "unused"

\* one element of the loop, from the extracted text to SanitizeValue's result
ConvertCall ==
    /\ convPc = "call"
    /\ handed' = ConvertValue(converter, StatePath, extracted)
    /\ converted' = SanitizeValue(handed')
    /\ convPc' = "done"
    /\ UNCHANGED <<converter, extracted>>

(***************************************************************************)
(* JQTransformer: gojq pipelines of field, iteration and select steps       *)
(***************************************************************************)
JqField(name) == [op |-> "field", name |-> name, lit |-> ""]

JqIterate == [op |-> "iterate", name |-> "", lit |-> ""]

\* select(.name == "lit")
JqSelect(name, lit) == [op |-> "select", name |-> name, lit |-> lit]

\* what gojq.Parse returns: the pipeline, or an error
BadQuery == [ok |-> FALSE, steps |-> <<>>]

Query(steps) == [ok |-> TRUE, steps |-> steps]

\* what the iterator gives until it stops: values, then possibly an error
Yield(vals) == [vals |-> vals, err |-> FALSE]

Fail == [vals |-> <<>>, err |-> TRUE]

MemberValues(obj) == [i \in 1..Len(obj.v) |-> obj.v[i].v]

\* .name: the member or null of an object, null of null, an error otherwise
jqIndex(v, name) ==
    CASE v.t = "obj" -> Yield(<<IF HasKey(v, name) THEN Lookup(v, name) ELSE JNull>>)
      [] v.t = "null" -> Yield(<<JNull>>)
      [] OTHER -> Fail

\* .[]: the elements of an array, the values of an object, an error otherwise
jqEach(v) ==
    CASE v.t = "arr" -> Yield(v.v)
      [] v.t = "obj" -> Yield(MemberValues(v))
      [] OTHER -> Fail

jqSelected(v, found, lit) ==
    IF found.err THEN Fail
    ELSE IF found.vals[1].t = "str" /\ found.vals[1].v = lit THEN Yield(<<v>>)
    ELSE Yield(<<>>)

jqStep(step, v) ==
    CASE step.op = "field" -> jqIndex(v, step.name)
      [] step.op = "iterate" -> jqEach(v)
      [] step.op = "select" -> jqSelected(v, jqIndex(v, step.name), step.lit)

jqJoin(first, rest) == [vals |-> first.vals \o rest.vals, err |-> rest.err]

\* the pipeline from step i on, run on v; the values of a step are fed to the
\* rest one after another, and an error ends the stream where it is met
RECURSIVE jqRun(_, _, _), jqFeed(_, _, _, _), jqThen(_, _, _, _, _)
jqRun(steps, i, v) ==
    IF i > Len(steps) THEN Yield(<<v>>)
    ELSE jqFeed(steps, i, jqStep(steps[i], v), 1)

jqFeed(steps, i, stream, k) ==
    IF k > Len(stream.vals) THEN [vals |-> <<>>, err |-> stream.err]
    ELSE jqThen(jqRun(steps, i + 1, stream.vals[k]), steps, i, stream, k)

jqThen(first, steps, i, stream, k) ==
    IF first.err THEN first ELSE jqJoin(first, jqFeed(steps, i, stream, k + 1))

TransformErr == [out |-> "", err |-> TRUE]

\* json.Marshal of the results slice: null while nothing was appended
MarshalResults(results) ==
    IF Len(results) = 0 THEN "null" ELSE MarshalJSON(JArr(results))

Transformed_Partial(stream) ==
    [out |-> MarshalResults(stream.vals), err |-> stream.err]

Transformed(stream) ==
    IF stream.err THEN TransformErr
    ELSE [out |-> MarshalResults(stream.vals), err |-> FALSE]

applyJQFilter(jsonData, jqQ) ==
    IF jsonData.t = "invalid" THEN TransformErr
    ELSE IF ~jqQ.ok THEN TransformErr
    ELSE Transformed(jqRun(jqQ.steps, 1, jsonData))

Origin(name, healthy) ==
    JObj(<<Member("healthy", JBool(healthy)), Member("name", JStr(name))>>)

Pool(name, origins) ==
    JObj(<<Member("name", JStr(name)), Member("origins", JArr(origins))>>)

BarePool(name) == JObj(<<Member("name", JStr(name))>>)

Result(pools) == JObj(<<Member("result", JArr(pools))>>)

\* the inputs of the transformer's tests, and some the tests leave out
TwoPools ==
    Result(<<Pool("pool1", <<Origin("origin1", TRUE), Origin("origin2", FALSE)>>),
             Pool("pool2", <<Origin("origin3", TRUE)>>)>>)

OnePool == Result(<<Pool("pool1", <<Origin("origin1", TRUE)>>)>>)

NoOrigins == Result(<<BarePool("pool1")>>)

LaterNoOrigins ==
    Result(<<Pool("pool1", <<Origin("origin1", TRUE)>>), BarePool("pool2")>>)

JQDocuments ==
    <<TwoPools, OnePool, NoOrigins, LaterNoOrigins,
      JObj(<<Member("result", JNum(5))>>), JArr(<<>>), InvalidJSON>>

JQSteps ==
    <<JqField("result"), JqField("origins"), JqField("name"), JqIterate,
      JqSelect("name", "pool1"), JqSelect("name", "pool2")>>

PipelineOf(ixs) == Query([i \in 1..Len(ixs) |-> JQSteps[ixs[i]]])

TransformInit ==
    /\ \E d \in 1..Len(JQDocuments) : jqData = JQDocuments[d]
    /\ \/ \E ixs \in IndexSeqs(Len(JQSteps), MaxQueryLen) : jqQuery = PipelineOf(ixs)
       \/ jqQuery = BadQuery
    /\ jqOut = [out |-> "", err |-> FALSE]
    /\ jqPc = "call"

TransformUnused ==
    /\ jqData = InvalidJSON
    /\ jqQuery = BadQuery
    /\ jqOut = [out |-> "", err |-> FALSE]
    /\ jqPc = "unused"

\* JQTransformer.Transform
Transform ==
    /\ jqPc = "call"
    /\ jqOut' = applyJQFilter(jqData, jqQuery)
    /\ jqPc' = "done"
    /\ UNCHANGED <<jqData, jqQuery>>

(***************************************************************************)
(* The '$'-path dialect: ValueScraper and ObjectScraper on a ticking        *)
(* collector.  A Go map is the set of its <<key, value>> entries.           *)
(***************************************************************************)
\* a configured string: compilePaths compiles it when it starts with '$'
Fixed(text) == [dynamic |-> FALSE, text |-> text, steps |-> <<>>]

Dollar(text, steps) == [dynamic |-> TRUE, text |-> text, steps |-> steps]

\* .name, [*] and ?(@.name == "lit")
Key(name) == [s |-> "key", name |-> name, lit |-> ""]

AnyIndex == [s |-> "any", name |-> "", lit |-> ""]

Where(name, lit) == [s |-> "where", name |-> name, lit |-> lit]

\* the results eval.Next gives for a path on a document, in document order
RECURSIVE EvalPathsInBytes(_, _, _)
EvalPathsInBytes(v, steps, i) ==
    IF i > Len(steps) THEN <<v>>
    ELSE CASE steps[i].s = "key" ->
                  IF v.t = "obj" /\ HasKey(v, steps[i].name)
                  THEN EvalPathsInBytes(Lookup(v, steps[i].name), steps, i + 1)
                  ELSE <<>>
           [] steps[i].s = "any" ->
                  IF v.t = "arr"
                  THEN Flatten([k \in 1..Len(v.v) |->
                                   EvalPathsInBytes(v.v[k], steps, i + 1)])
                  ELSE <<>>
           [] steps[i].s = "where" ->
                  IF /\ v.t = "obj"
                     /\ HasKey(v, steps[i].name)
                     /\ Lookup(v, steps[i].name).t = "str"
                     /\ Lookup(v, steps[i].name).v = steps[i].lit
                  THEN EvalPathsInBytes(v, steps, i + 1)
                  ELSE <<>>

ScrapeMetric(name, type, path, labels, values) ==
    [Name |-> name, Type |-> type, Path |-> path, Labels |-> labels,
     Values |-> values]

parseValue(text) == ParseFloat(text)

\* the switch on result.Type in ValueScraper.Scrape
ValueScraperValue(result) ==
    CASE result.t = "num" -> parseValue(NumToText(result.v))
      [] result.t = "str" -> parseValue(result.v)
      [] result.t = "null" -> [ok |-> TRUE, val |-> NaN]
      [] result.t = "bool" ->
             [ok |-> TRUE, val |-> IF result.v THEN Fin(FALSE, 1, 0)
                                   ELSE Fin(FALSE, 0, 0)]
      [] OTHER -> NoFloat

\* the switch on firstResult.Type in ObjectScraper.Scrape
ObjectScraperValue(firstResult) ==
    CASE firstResult.t = "num" -> parseValue(NumToText(firstResult.v))
      [] firstResult.t = "str" -> parseValue(firstResult.v)
      [] firstResult.t = "null" -> [ok |-> TRUE, val |-> NaN]
      [] OTHER -> NoFloat

\* GaugeVec.With(labels).Set(value)
Gauge(name, labels, value) == [name |-> name, labels |-> labels, value |-> value]

SetGauges(reg, gauges) ==
    {g \in reg : ~\E n \in gauges : n.name = g.name /\ n.labels = g.labels}
        \cup gauges

Scraped(reg) == [reg |-> reg, crashed |-> FALSE]

ValueScraperSet(vs, results, reg) ==
    IF Len(results) = 0 THEN Scraped(reg)
    ELSE IF ~ValueScraperValue(results[1]).ok THEN Scraped(reg)
    ELSE Scraped(SetGauges(reg,
             {Gauge(vs.Name, {<<l[1], l[2].text>> : l \in vs.Labels},
                    ValueScraperValue(results[1]).val)}))

\* only the first result is handled
ValueScraperScrape(vs, data, reg) ==
    ValueScraperSet(vs, EvalPathsInBytes(data, vs.Path.steps, 1), reg)

\* a label's bytes: a string without its quotes
LabelBytes(firstResult) ==
    IF firstResult.t = "str" THEN firstResult.v ELSE MarshalJSON(firstResult)

Found(elem, path) == Len(EvalPathsInBytes(elem, path.steps, 1)) > 0

First(elem, path) == EvalPathsInBytes(elem, path.steps, 1)[1]

\* newLabels and the dynamic labels whose path gives a value
ElementLabels(obsc, elem) ==
    {<<l[1], l[2].text>> : l \in {x \in obsc.Labels : ~x[2].dynamic}}
        \cup {<<l[1], LabelBytes(First(elem, l[2]))>> :
                 l \in {x \in obsc.Labels : x[2].dynamic /\ Found(elem, x[2])}}

SubValue(configValue, elem) ==
    IF ~configValue.dynamic THEN parseValue(configValue.text)
    ELSE IF ~Found(elem, configValue) THEN NoFloat
    ELSE ObjectScraperValue(First(elem, configValue))

\* the gauges the element sets, one for every value that is not skipped
ElementGauges(obsc, elem) ==
    {Gauge(MakeMetricName(obsc.Name, v[1]), ElementLabels(obsc, elem),
           SubValue(v[2], elem).val) :
        v \in {x \in obsc.Values : SubValue(x[2], elem).ok}}

\* With panics when a label of the vector is missing
WithPanics(obsc, elem) ==
    {l[1] : l \in ElementLabels(obsc, elem)} # {l[1] : l \in obsc.Labels}

ObjectScraperHandle(obsc, result, out) ==
    IF out.crashed THEN out
    ELSE IF result.t \notin {"obj", "arr"} THEN out
    ELSE IF ElementGauges(obsc, result) = {} THEN out
    ELSE IF WithPanics(obsc, result) THEN [reg |-> out.reg, crashed |-> TRUE]
    ELSE Scraped(SetGauges(out.reg, ElementGauges(obsc, result)))

RECURSIVE forTargetValue(_, _, _, _)
forTargetValue(obsc, results, k, out) ==
    IF k > Len(results) THEN out
    ELSE forTargetValue(obsc, results, k + 1,
                        ObjectScraperHandle(obsc, results[k], out))

ObjectScraperScrape(obsc, data, reg) ==
    forTargetValue(obsc, EvalPathsInBytes(data, obsc.Path.steps, 1), 1,
                   Scraped(reg))

Scrape(scraper, data, out) ==
    IF out.crashed THEN out
    ELSE IF scraper.Type = "object" THEN ObjectScraperScrape(scraper, data, out.reg)
    ELSE ValueScraperScrape(scraper, data, out.reg)

\* Collector.Collect on a fetched body: every scraper in turn
RECURSIVE CollectorCollect(_, _, _, _)
CollectorCollect(scrapers, data, i, out) ==
    IF i > Len(scrapers) THEN out
    ELSE CollectorCollect(scrapers, data, i + 1, Scrape(scrapers[i], data, out))

\* example/config.yml and example/data.json of this dialect
BetaLabel == <<"environment", Fixed("beta")>>

IdLabel == <<"id", Dollar("$.id", <<Key("id")>>)>>

ActiveValues == <<Key("values"), AnyIndex, Where("state", "ACTIVE")>>

DollarGlobalValue ==
    ScrapeMetric("example_global_value", "value",
                 Dollar("$.counter", <<Key("counter")>>), {BetaLabel}, {})

DollarValue ==
    ScrapeMetric("example_value", "object",
                 Dollar("$.values[*]?(@.state == \"ACTIVE\")", ActiveValues),
                 {BetaLabel, IdLabel},
                 {<<"active", Fixed("1")>>,
                  <<"count", Dollar("$.count", <<Key("count")>>)>>,
                  <<"boolean", Dollar("$.some_boolean", <<Key("some_boolean")>>)>>})

DollarExample == <<DollarGlobalValue, DollarValue>>

ScrapeConfigs ==
    { DollarExample,
      <<DollarGlobalValue>>,
      <<DollarValue>>,
      \* a value metric on a path with several results, the first a boolean
      <<ScrapeMetric("first_boolean", "value",
                     Dollar("$.values[*].some_boolean",
                            <<Key("values"), AnyIndex, Key("some_boolean")>>),
                     {}, {})>>,
      \* every element, a static value that is no number
      <<ScrapeMetric("every", "object",
                     Dollar("$.values[*]", <<Key("values"), AnyIndex>>),
                     {IdLabel},
                     {<<"boolean", Dollar("$.some_boolean", <<Key("some_boolean")>>)>>,
                      <<"active", Fixed("yes")>>})>>,
      \* a scalar under an object metric
      <<ScrapeMetric("scalar", "object", Dollar("$.counter", <<Key("counter")>>),
                     {}, {<<"active", Fixed("1")>>})>> }

CounterValues == <<JNum(1234), JStr("12"), JBool(TRUE), JNull>>

CountValues == <<JNum(1), JStr("1"), JBool(TRUE), JNull>>

BooleanValues == <<JBool(TRUE), JBool(FALSE), JStr("true"), JNull>>

\* data.json with the first element's members varied
FirstElement(count, boolean, hasId, hasBoolean) ==
    JObj(<<Member("count", count)>>
         \o (IF hasId THEN <<Member("id", JStr("id-A"))>> ELSE <<>>)
         \o (IF hasBoolean THEN <<Member("some_boolean", boolean)>> ELSE <<>>)
         \o <<Member("state", JStr("ACTIVE"))>>)

ScrapeDataOf(counter, count, boolean, hasId, hasBoolean) ==
    JObj(<<Member("counter", counter),
           Member("values",
               JArr(<<FirstElement(count, boolean, hasId, hasBoolean),
                      ExampleElement("id-B", 2, TRUE, "INACTIVE"),
                      ExampleElement("id-C", 3, FALSE, "ACTIVE")>>))>>)

DollarData == ScrapeDataOf(JNum(1234), JNum(1), JBool(TRUE), TRUE, TRUE)

ScrapeInit ==
    /\ scConfig \in ScrapeConfigs
    /\ scData = InvalidJSON
    /\ scReg = {}
    /\ scCrashed = FALSE

ScrapeUnused ==
    /\ scConfig = <<>>
    /\ scData = InvalidJSON
    /\ scReg = {}
    /\ scCrashed = FALSE

\* a tick: the registry is reset, the body fetched and every scraper run on it
ScrapeTick ==
    /\ ~scCrashed
    /\ \E c \in 1..Len(CounterValues), n \in 1..Len(CountValues),
          b \in 1..Len(BooleanValues), hasId, hasBoolean \in BOOLEAN :
           scData' = ScrapeDataOf(CounterValues[c], CountValues[n],
                                  BooleanValues[b], hasId, hasBoolean)
    /\ scReg' = CollectorCollect(scConfig, scData', 1, Scraped({})).reg
    /\ scCrashed' = CollectorCollect(scConfig, scData', 1, Scraped({})).crashed
    /\ UNCHANGED scConfig

\* a tick whose fetch fails: the registry is reset and nothing is scraped
ScrapeTickFetchError ==
    /\ ~scCrashed
    /\ scData' = InvalidJSON
    /\ scReg' = {}
    /\ UNCHANGED <<scConfig, scCrashed>>

(***************************************************************************)
(* The '$'-path dialect behind /probe: probeHandler over gauge collectors.  *)
(* The handler's registry is scReg, its configuration scConfig.             *)
(***************************************************************************)
JsonGaugeCollector(name, keyJsonPath, valueJsonPath, labelsJsonPath) ==
    [Name |-> name, KeyJsonPath |-> keyJsonPath, ValueJsonPath |-> valueJsonPath,
     LabelsJsonPath |-> labelsJsonPath]

\* the collectors of one metric, an object's sub-values in the order visited
GaugeCollectors(metric, order) ==
    IF metric.Type = "value"
    THEN <<JsonGaugeCollector(metric.Name, metric.Path, Fixed(""), metric.Labels)>>
    ELSE [i \in 1..Len(order) |->
             JsonGaugeCollector(MakeMetricName(metric.Name, order[i][1]),
                                metric.Path, order[i][2], metric.Labels)]

RECURSIVE GaugeMetrics(_, _)
GaugeMetrics(configured, metrics) ==
    IF configured = <<>> THEN {[metrics |-> metrics, err |-> NoError]}
    ELSE IF Head(configured).Type \notin {"value", "object"}
    THEN {[metrics |-> <<>>, err |-> UnknownMetricType(Head(configured))]}
    ELSE UNION {GaugeMetrics(Tail(configured),
                             metrics \o GaugeCollectors(Head(configured), order)) :
                   order \in Perms(Head(configured).Values)}

\* internal.CreateMetricsList: every list the call may return
GaugeCreateMetricsList(c) == GaugeMetrics(c, <<>>)

\* internal.SanitizeValue, on a jsonpath result
SanitizeResult(v) ==
    CASE v.t = "num" -> parseValue(NumToText(v.v))
      [] v.t = "str" -> parseValue(v.v)
      [] v.t = "null" -> [ok |-> TRUE, val |-> NaN]
      [] v.t = "bool" ->
             [ok |-> TRUE, val |-> IF v.v THEN Fin(FALSE, 1, 0) ELSE Fin(FALSE, 0, 0)]
      [] OTHER -> parseValue(MarshalJSON(v))

\* internal.extractValue: a static value, or the first result sanitized
GaugeExtractValue(json, path) ==
    IF ~path.dynamic THEN parseValue(path.text)
    ELSE IF ~Found(json, path) THEN NoFloat
    ELSE SanitizeResult(First(json, path))

\* internal.extractLabels: a label whose path gives nothing is left out
GaugeExtractLabels(json, l) ==
    {<<x[1], x[2].text>> : x \in {y \in l : ~y[2].dynamic}}
        \cup {<<x[1], LabelBytes(First(json, x[2]))>> :
                 x \in {y \in l : y[2].dynamic /\ Found(json, y[2])}}

\* collector.With(labels).Set(floatValue); With panics on a missing label
GaugeSet(collector, labels, floatValue, out) ==
    IF {x[1] : x \in labels} # {x[1] : x \in collector.LabelsJsonPath}
    THEN [reg |-> out.reg, crashed |-> TRUE]
    ELSE Scraped(SetGauges(out.reg, {Gauge(collector.Name, labels, floatValue)}))

GaugeScrapeValue(collector, json, out) ==
    IF out.crashed THEN out
    ELSE IF ~GaugeExtractValue(json, collector.ValueJsonPath).ok THEN out
    ELSE GaugeSet(collector, GaugeExtractLabels(json, collector.LabelsJsonPath),
                  GaugeExtractValue(json, collector.ValueJsonPath).val, out)

RECURSIVE GaugeScrapeResults(_, _, _, _)
GaugeScrapeResults(collector, results, k, out) ==
    IF k > Len(results) THEN out
    ELSE GaugeScrapeResults(collector, results, k + 1,
                            GaugeScrapeValue(collector, results[k], out))

GaugeScrapeKey(collector, json, out) ==
    IF ~GaugeExtractValue(json, collector.KeyJsonPath).ok THEN out
    ELSE GaugeSet(collector, GaugeExtractLabels(json, collector.LabelsJsonPath),
                  GaugeExtractValue(json, collector.KeyJsonPath).val, out)

\* internal.Scrape: a collector without a value path is a 'value' metric
RECURSIVE GaugeScrape(_, _, _, _)
GaugeScrape(collectors, json, i, out) ==
    IF i > Len(collectors) \/ out.crashed THEN out
    ELSE IF collectors[i].ValueJsonPath.text = ""
    THEN GaugeScrape(collectors, json, i + 1,
                     GaugeScrapeKey(collectors[i], json, out))
    \* compilePath reads path[len(path)-1]: an empty key path is out of range
    ELSE IF collectors[i].KeyJsonPath.text = ""
    THEN [reg |-> out.reg, crashed |-> TRUE]
    ELSE GaugeScrape(collectors, json, i + 1,
                     GaugeScrapeResults(collectors[i],
                         EvalPathsInBytes(json, collectors[i].KeyJsonPath.steps, 1),
                         1, out))

ProbeGauges(success, duration) ==
    {Gauge("probe_success", {}, success),
     Gauge("probe_duration_seconds", {}, duration)}

\* what time.Since may measure
Durations == {Fin(FALSE, 1, -3), Fin(FALSE, 2, 0)}

\* FetchJson fails on client.Do's error or an unreadable body, on no status
GaugeFetchFailures == {"connection", "tls", "cancelled", "timeout", "read"}

GaugeConfigs ==
    ScrapeConfigs
        \cup {<<ScrapeMetric("typo", "objects", Dollar("$.counter", <<Key("counter")>>),
                             {}, {})>>,
              \* an object metric without a key path
              <<ScrapeMetric("keyless", "object", Fixed(""), {},
                             {<<"count", Dollar("$.count", <<Key("count")>>)>>}),
                DollarGlobalValue>>}

GaugeInit ==
    /\ scConfig \in GaugeConfigs
    /\ scData = InvalidJSON
    /\ scReg = {}
    /\ scCrashed = FALSE

GaugeRequest ==
    /\ pc = "idle"
    /\ \E t \in TargetParams : req' = [module |-> "", target |-> t]
    /\ pc' = "build"
    /\ UNCHANGED <<cfg, moduleName, jsonMetrics, buildErr, fetched, fetchedData,
                   fetchErr, collected, resp, scrapeVars>>

\* CreateMetricsList; an error is logged and the handler goes on
GaugeBuild ==
    /\ pc = "build"
    /\ \E r \in GaugeCreateMetricsList(scConfig) :
           jsonMetrics' = r.metrics /\ buildErr' = r.err
    /\ pc' = "target"
    /\ UNCHANGED <<cfg, req, moduleName, fetched, fetchedData, fetchErr, collected,
                   resp, scrapeVars>>

\* FetchJson fails: the failure is logged, nothing is scraped, and the registry
\* with the two probe gauges is served
GaugeFetchError ==
    /\ pc = "fetch"
    /\ fetched' = TRUE
    /\ \E e \in GaugeFetchFailures : fetchErr' = e
    /\ resp' = [status |-> StatusOK,
                body |-> scReg \cup ProbeGauges(Fin(FALSE, 0, 0), Fin(FALSE, 0, 0))]
    /\ pc' = "done"
    /\ UNCHANGED <<cfg, req, moduleName, jsonMetrics, buildErr, fetchedData,
                   collected, scrapeVars>>

GaugeServed(out, duration) ==
    IF out.crashed THEN NoResponse
    ELSE [status |-> StatusOK,
          body |-> out.reg \cup ProbeGauges(Fin(FALSE, 1, 0), duration)]

\* FetchJson returns a body: Scrape sets the gauges and the registry is served
GaugeFetch ==
    /\ pc = "fetch"
    /\ fetched' = TRUE
    /\ \E c \in 1..Len(CounterValues), n \in 1..Len(CountValues),
          b \in 1..Len(BooleanValues), hasId, hasBoolean \in BOOLEAN :
           fetchedData' = ScrapeDataOf(CounterValues[c], CountValues[n],
                                       BooleanValues[b], hasId, hasBoolean)
    /\ scReg' = GaugeScrape(jsonMetrics, fetchedData', 1, Scraped(scReg)).reg
    /\ scCrashed' = GaugeScrape(jsonMetrics, fetchedData', 1, Scraped(scReg)).crashed
    /\ \E duration \in Durations :
           resp' = GaugeServed(GaugeScrape(jsonMetrics, fetchedData', 1,
                                           Scraped(scReg)), duration)
    /\ pc' = "done"
    /\ UNCHANGED <<cfg, req, moduleName, jsonMetrics, buildErr, fetchErr, collected,
                   scConfig, scData>>

\* the handler returns; its registry goes with it
GaugeReturn ==
    /\ ProbeReturn
    /\ scReg' = {}
    /\ scCrashed' = FALSE
    /\ UNCHANGED <<scConfig, scData>>

(***************************************************************************)
(* One call of extractValueCEL                                             *)
(***************************************************************************)
CelExpressions ==
    {CelBad,
     CelSelect("counter", <<>>),
     CelSelect("location", <<>>),
     CelSelect("values", <<>>),
     CelSelect("missing", <<>>),
     CelSelect("counter", <<"total">>)}

CelInit ==
    /\ \E d \in 1..Len(Documents) : celData = Documents[d]
    /\ celExpr \in CelExpressions
    /\ celJSON \in BOOLEAN
    /\ celOut = ExtractErr
    /\ celPc = "call"

CelUnused ==
    /\ celData = InvalidJSON
    /\ celExpr = CelBad
    /\ celJSON = FALSE
    /\ celOut = ExtractErr
    /\ celPc = "unused"

CelCall ==
    /\ celPc = "call"
    /\ celOut' = extractValueCEL(celData, celExpr, celJSON)
    /\ celPc' = "done"
    /\ UNCHANGED <<celData, celExpr, celJSON>>

(***************************************************************************)
(* One call of SanitizeIntValue                                            *)
(***************************************************************************)
\* epoch texts: floats as a document may print them, and the ends of int64
EpochLiterals ==
    {"1.657568506e+09", "1657568506", "1e3", "12.0", "true", "false", "t", "F",
     "<nil>", "", "abcd", "+12", "-0", "007",
     MaxInt64Digits, MinInt64Digits, "-" \o MinInt64Digits,
     "-9223372036854775809", "99999999999999999999"}

IntInputs == Strings(NumAlphabet, MaxNumLen) \cup EpochLiterals

NoInt == [val |-> [neg |-> FALSE, digits |-> "0"], err |-> FALSE]

SanitizeIntInit ==
    /\ intIn \in IntInputs
    /\ intOut = NoInt
    /\ intPc = "call"

SanitizeIntUnused ==
    /\ intIn = ""
    /\ intOut = NoInt
    /\ intPc = "unused"

SanitizeIntCall ==
    /\ intPc = "call"
    /\ intOut' = SanitizeIntValue(intIn)
    /\ intPc' = "done"
    /\ UNCHANGED intIn

(***************************************************************************)
(* JsonMetricCollector.Collect with timestamps in a configured timezone    *)
(***************************************************************************)
JsonMetric(name, keyJsonPath, valueJsonPath, timestampPath, timezone) ==
    [Desc |-> NewDesc(name, name, <<>>), KeyJsonPath |-> keyJsonPath,
     ValueJsonPath |-> valueJsonPath, LabelsJsonPaths |-> <<>>,
     TimestampPath |-> timestampPath, Timezone |-> timezone]

\* the zone time.Local holds when the process starts
DefaultLocal == "Local"

\* the names time.LoadLocation finds
KnownZones == {"UTC", "Asia/Tokyo", "Europe/Paris"}

\* the date texts of the documents below that dateparse reads; they name no zone
DateTexts == {"2021-01-01 12:00:00", "2021-06-01 00:00:00"}

NoWallTime == [set |-> FALSE, wall |-> "", zone |-> ""]

\* dateparse.ParseLocal: the wall time, in the zone time.Local holds
ParseLocal(ts, loc) ==
    IF ts \in DateTexts
    THEN [ok |-> TRUE, time |-> [set |-> TRUE, wall |-> ts, zone |-> loc]]
    ELSE [ok |-> FALSE, time |-> NoWallTime]

\* manage timestamp: a timestamp that cannot be read drops the sample
TzStamped(m, metric, ts, loc) ==
    IF ts.err THEN <<>>
    ELSE IF ~ParseLocal(ts.text, loc).ok THEN <<>>
    ELSE <<[metric EXCEPT !.ts = ParseLocal(ts.text, loc).time]>>

TzSend(m, data, floatValue, loc) ==
    IF floatValue.err THEN <<>>
    ELSE IF m.TimestampPath = EmptyPath
    THEN <<[desc |-> m.Desc, value |-> floatValue.val, ts |-> NoWallTime,
            labelValues |-> extractLabels(EngineTypeJSONPath, data, m.LabelsJsonPaths)]>>
    ELSE TzStamped(m,
             [desc |-> m.Desc, value |-> floatValue.val, ts |-> NoWallTime,
              labelValues |-> extractLabels(EngineTypeJSONPath, data,
                                            m.LabelsJsonPaths)],
             extractValueJSONPath(data, m.TimestampPath, FALSE), loc)

TzSendValue(m, data, value, loc) ==
    IF value.err THEN <<>> ELSE TzSend(m, data, SanitizeValue(value.text), loc)

RECURSIVE TzElements(_, _, _)
TzElements(m, jsonData, loc) ==
    IF jsonData = <<>> THEN <<>>
    ELSE TzSendValue(m, Head(jsonData),
                     extractValueJSONPath(Head(jsonData), m.ValueJsonPath, FALSE), loc)
         \o TzElements(m, Tail(jsonData), loc)

TzObject(m, values, loc) ==
    IF values.err THEN <<>>
    ELSE IF Len(values.json) # 1 THEN <<>>
    ELSE TzElements(m, values.json[1].v, loc)

\* the samples of one descriptor, time.Local being loc
TzCollectMetric(m, data, loc) ==
    IF m.ValueJsonPath = EmptyPath
    THEN TzSendValue(m, data, extractValueJSONPath(data, m.KeyJsonPath, FALSE), loc)
    ELSE TzObject(m, extractValueJSONPath(data, m.KeyJsonPath, TRUE), loc)

ManagesTimezone(m) == m.TimestampPath # EmptyPath /\ m.Timezone # ""

\* the loop over JsonMetrics: time.Local = loc is assigned before the
\* descriptor is collected; an unknown zone skips the descriptor
RECURSIVE TzCollect(_, _, _, _, _)
TzCollect(metrics, data, i, loc, sent) ==
    IF i > Len(metrics) THEN [Local |-> loc, sent |-> sent]
    ELSE IF ManagesTimezone(metrics[i]) /\ metrics[i].Timezone \notin KnownZones
    THEN TzCollect(metrics, data, i + 1, loc, sent)
    ELSE IF ManagesTimezone(metrics[i])
    THEN TzCollect(metrics, data, i + 1, metrics[i].Timezone,
                   sent \o TzCollectMetric(metrics[i], data, metrics[i].Timezone))
    ELSE TzCollect(metrics, data, i + 1, loc,
                   sent \o TzCollectMetric(metrics[i], data, loc))

TimePath == Path(<<Field("time")>>)

TzPool ==
    <<JsonMetric("plain", Path(<<Field("counter")>>), EmptyPath, EmptyPath, ""),
      JsonMetric("stamped", Path(<<Field("counter")>>), EmptyPath, TimePath, ""),
      JsonMetric("tokyo", Path(<<Field("counter")>>), EmptyPath, TimePath,
                 "Asia/Tokyo"),
      JsonMetric("nowhere", Path(<<Field("counter")>>), EmptyPath, TimePath,
                 "Mars/Olympus"),
      JsonMetric("zoned", Path(<<Field("counter")>>), EmptyPath, EmptyPath, "UTC"),
      JsonMetric("item", Path(<<Field("values"), Wildcard>>),
                 Path(<<Field("count")>>), Path(<<Field("at")>>), "Europe/Paris")>>

TzDocument(time) ==
    JObj(<<Member("counter", JNum(5)), Member("time", JStr(time)),
           Member("values",
               JArr(<<JObj(<<Member("at", JStr("2021-06-01 00:00:00")),
                             Member("count", JNum(1))>>),
                      JObj(<<Member("at", JStr("soon")),
                             Member("count", JNum(2))>>)>>))>>)

TzDocuments ==
    <<TzDocument("2021-01-01 12:00:00"), TzDocument("abcd"),
      JObj(<<Member("counter", JNum(5))>>), InvalidJSON>>

TzInit ==
    /\ Local = DefaultLocal
    /\ tzMetrics = <<>>
    /\ tzData = InvalidJSON
    /\ tzSent = <<>>

\* a probe's registry is gathered: Collect runs on its descriptors and data
TzGather ==
    /\ \E ixs \in IndexSeqs(Len(TzPool), MaxMetrics) :
           tzMetrics' = [i \in 1..Len(ixs) |-> TzPool[ixs[i]]]
    /\ \E d \in 1..Len(TzDocuments) : tzData' = TzDocuments[d]
    /\ Local' = TzCollect(tzMetrics', tzData', 1, Local, <<>>).Local
    /\ tzSent' = TzCollect(tzMetrics', tzData', 1, Local, <<>>).sent

(***************************************************************************)
(* JSONFetcher.FetchJSON                                                   *)
(***************************************************************************)
NoData == [nil |-> TRUE, bytes |-> ""]

Bytes(b) == [nil |-> FALSE, bytes |-> b]

Fetched(err, data) == [err |-> err, data |-> data]

\* the loop over ValidStatusCodes
RECURSIVE StatusListed(_, _)
StatusListed(codes, status) ==
    IF codes = <<>> THEN FALSE
    ELSE IF status = Head(codes) THEN TRUE
    ELSE StatusListed(Tail(codes), status)

\* variant: the status is checked against 2xx whatever the module lists
StatusPasses_Only2xx(codes, status) == status \div 100 = 2

StatusPasses(codes, status) ==
    IF Len(codes) # 0 THEN StatusListed(codes, status) ELSE status \div 100 = 2

\* the response is there: status check, then io.ReadAll
FetchJSONResponse(codes, status, readOk, body) ==
    IF ~StatusPasses(codes, status) THEN Fetched("status", NoData)
    ELSE IF ~readOk THEN Fetched("read", NoData)
    ELSE Fetched("", Bytes(body))

\* the statuses a target answers with, and the lists a module configures
StatusCodes == {199, 200, 201, 204, 299, 300, 301, 404, 500, 503}

StatusLists == {<<>>, <<200>>, <<404>>, <<200, 404>>, <<301, 503, 301>>, <<204, 500>>}

Bodies == {"", "{}", "[1]"}

FetchJSONInit ==
    /\ fjCodes \in StatusLists
    /\ fjStatus = 0
    /\ fjOut = Fetched("", NoData)
    /\ fjPc = "call"

FetchJSONUnused ==
    /\ fjCodes = <<>>
    /\ fjStatus = 0
    /\ fjOut = Fetched("", NoData)
    /\ fjPc = "unused"

\* no response: the client cannot be built, or client.Do fails (a request
\* that cannot be built is used before its error is looked at, and panics)
FetchJSONNoResponse ==
    /\ fjPc = "call"
    /\ \E e \in {"client", "panic", "do"} : fjOut' = Fetched(e, NoData)
    /\ fjPc' = "done"
    /\ UNCHANGED <<fjCodes, fjStatus>>

FetchJSONCall ==
    /\ fjPc = "call"
    /\ \E status \in StatusCodes, readOk \in BOOLEAN, body \in Bodies :
           /\ fjStatus' = status
           /\ fjOut' = FetchJSONResponse(fjCodes, status, readOk, body)
    /\ fjPc' = "done"
    /\ UNCHANGED fjCodes

(***************************************************************************)
(* JSONMetricCollector.Collect with object keys as labels.  A range over a *)
(* Go map visits its keys in any order, so an extraction is the set of the *)
(* results it may give.                                                    *)
(***************************************************************************)
\* the path text {__name__}
NameKeyPath == Path(<<Field("__name__")>>)

Keys(objMap) == {objMap.v[i].k : i \in 1..Len(objMap.v)}

\* the texts the path extracts from the nested values of the object
NestedTexts(objMap, path) ==
    {extractValueJSONPath(objMap.v[i].v, path, FALSE).text :
        i \in {j \in 1..Len(objMap.v) :
                  ~extractValueJSONPath(objMap.v[j].v, path, FALSE).err}}

\* one label of extractDynamicLabels: the first key the range visits; or the
\* path on the element; or the first nested value the range visits that has it
DynamicLabelTexts(data, path) ==
    IF path = NameKeyPath
    THEN IF data.t = "obj" /\ Len(data.v) > 0 THEN Keys(data) ELSE {""}
    ELSE IF ~extractValueJSONPath(data, path, FALSE).err
    THEN {extractValueJSONPath(data, path, FALSE).text}
    ELSE IF data.t = "obj" /\ NestedTexts(data, path) # {}
    THEN NestedTexts(data, path)
    ELSE {""}

RECURSIVE extractDynamicLabels(_, _, _)
extractDynamicLabels(data, paths, i) ==
    IF i > Len(paths) THEN {<<>>}
    ELSE {<<text>> \o rest : text \in DynamicLabelTexts(data, paths[i]),
                              rest \in extractDynamicLabels(data, paths, i + 1)}

extractDynamicValue(data, path) ==
    IF ~extractValueJSONPath(data, path, FALSE).err
    THEN {[err |-> FALSE, text |-> extractValueJSONPath(data, path, FALSE).text]}
    ELSE IF data.t = "obj" /\ NestedTexts(data, path) # {}
    THEN {[err |-> FALSE, text |-> text] : text \in NestedTexts(data, path)}
    ELSE {[err |-> TRUE, text |-> ""]}

DynamicSample(m, data, dynamicLabels, value) ==
    IF value.err THEN <<>>
    ELSE IF SanitizeValue(value.text).err THEN <<>>
    ELSE <<timestampMetric(m, data,
               ConstMetric(m, SanitizeValue(value.text).val, dynamicLabels))>>

\* the body of the loop over jsonData for one element
DynamicElement(m, data) ==
    {DynamicSample(m, data, dynamicLabels, value) :
        dynamicLabels \in extractDynamicLabels(data, m.LabelsJSONPaths, 1),
        value \in extractDynamicValue(data, m.ValueJSONPath)}

RECURSIVE DynamicElements(_, _)
DynamicElements(m, jsonData) ==
    IF jsonData = <<>> THEN {<<>>}
    ELSE {first \o rest : first \in DynamicElement(m, Head(jsonData)),
                          rest \in DynamicElements(m, Tail(jsonData))}

DynamicObject(m, values) ==
    IF values.err THEN {<<>>}
    ELSE IF Len(values.json) # 1 THEN {<<>>}
    ELSE DynamicElements(m, values.json[1].v)

DynamicMetric(m, data) ==
    CASE m.Type = ValueScrape ->
             {SendValue(m, data, extractValueJSONPath(data, m.KeyJSONPath, FALSE))}
      [] m.Type = ObjectScrape ->
             DynamicObject(m, extractValueJSONPath(data, m.KeyJSONPath, TRUE))
      [] OTHER -> {<<>>}

\* Collect: the sample sequences a collection may send on ch
RECURSIVE DynamicCollect(_, _, _)
DynamicCollect(JSONMetrics, data, i) ==
    IF i > Len(JSONMetrics) THEN {<<>>}
    ELSE {first \o rest : first \in DynamicMetric(JSONMetrics[i], data),
                          rest \in DynamicCollect(JSONMetrics, data, i + 1)}

\* descriptors: services by their key, services by a nested member, a plain
\* value, and the elements of an array
DynamicPool ==
    <<JSONMetric(Metric("service", ObjectScrape, Path(<<Field("services")>>),
                        OneLabel("name", NameKeyPath), NoLabels),
                 "service_count", Path(<<Field("count")>>), <<"name">>),
      JSONMetric(Metric("zone", ObjectScrape, Path(<<Field("services")>>),
                        OneLabel("zone", Path(<<Field("zone")>>)), NoLabels),
                 "zone_active", Static("1"), <<"zone">>),
      JSONMetric(Metric("counter", ValueScrape, Path(<<Field("counter")>>),
                        NoLabels, NoLabels),
                 "counter", EmptyPath, <<>>),
      JSONMetric(Metric("item", ObjectScrape, Path(<<Field("values"), Wildcard>>),
                        OneLabel("id", Path(<<Field("id")>>)), NoLabels),
                 "item_count", Path(<<Field("count")>>), <<"id">>)>>

Service(count, zone) ==
    JObj(<<Member("count", JNum(count)), Member("zone", JStr(zone))>>)

DynamicDocument(services) ==
    JObj(<<Member("counter", JNum(5)), Member("services", JObj(services)),
           Member("values",
               JArr(<<JObj(<<Member("count", JNum(1)),
                             Member("id", JStr("id-A"))>>)>>))>>)

DynamicDocuments ==
    <<DynamicDocument(<<Member("db", Service(2, "b")), Member("web", Service(1, "a"))>>),
      DynamicDocument(<<Member("db", Service(2, "b"))>>),
      DynamicDocument(<<Member("db", Service(1, "a")), Member("web", Service(1, "a"))>>),
      DynamicDocument(<<>>),
      InvalidJSON>>

DynamicInit ==
    /\ \E ixs \in IndexSeqs(Len(DynamicPool), MaxMetrics) :
           dynMetrics = [i \in 1..Len(ixs) |-> DynamicPool[ixs[i]]]
    /\ \E d \in 1..Len(DynamicDocuments) : dynData = DynamicDocuments[d]
    /\ dynSent = <<>>
    /\ dynBefore = <<>>
    /\ dynRuns = 0

DynamicUnused ==
    /\ dynMetrics = <<>>
    /\ dynData = InvalidJSON
    /\ dynSent = <<>>
    /\ dynBefore = <<>>
    /\ dynRuns = 0

\* the registry is gathered once more on the same descriptors and data
DynamicGather ==
    /\ dynRuns < 2
    /\ dynRuns' = dynRuns + 1
    /\ dynBefore' = dynSent
    /\ dynSent' \in DynamicCollect(dynMetrics, dynData, 1)
    /\ UNCHANGED <<dynMetrics, dynData>>

(***************************************************************************)
(* exporter.main of the harness: the first collection, then a goroutine    *)
(* that resets and collects on every tick while the http server answers    *)
(* scrapes of the metrics path.  Nothing orders a scrape and the ticker.   *)
(***************************************************************************)
HarnessBodies ==
    <<DollarData, ScrapeDataOf(JNum(1), JNum(2), JBool(FALSE), TRUE, TRUE)>>

NotServed == [scraped |-> FALSE, metrics |-> {}, finished |-> {}]

HarnessInit ==
    /\ hConfig \in ScrapeConfigs
    /\ hResetOnTick \in BOOLEAN
    /\ hReg = {}
    /\ hPc = "start"
    /\ hData = InvalidJSON
    /\ hNext = 1
    /\ hCrashed = FALSE
    /\ hResult = {}
    /\ hSeen = NotServed

HarnessUnused ==
    /\ hConfig = <<>>
    /\ hResetOnTick = FALSE
    /\ hReg = {}
    /\ hPc = "start"
    /\ hData = InvalidJSON
    /\ hNext = 1
    /\ hCrashed = FALSE
    /\ hResult = {}
    /\ hSeen = NotServed

\* collector.Collect(registry) before the server listens
HarnessFirstCollect ==
    /\ hPc = "start"
    /\ \E b \in 1..Len(HarnessBodies) : hData' = HarnessBodies[b]
    /\ hReg' = CollectorCollect(hConfig, hData', 1, Scraped(hReg)).reg
    /\ hCrashed' = CollectorCollect(hConfig, hData', 1, Scraped(hReg)).crashed
    /\ hResult' = hReg'
    /\ hPc' = "idle"
    /\ UNCHANGED <<hConfig, hResetOnTick, hNext, hSeen>>

HarnessFirstFetchError ==
    /\ hPc = "start"
    /\ hPc' = "idle"
    /\ UNCHANGED <<hConfig, hResetOnTick, hReg, hData, hNext, hCrashed, hResult,
                   hSeen>>

\* a tick arrives: registry.Reset() when ResetOnTick
HarnessTick ==
    /\ hPc = "idle" /\ ~hCrashed
    /\ hReg' = IF hResetOnTick THEN {} ELSE hReg
    /\ hPc' = "fetch"
    /\ UNCHANGED <<hConfig, hResetOnTick, hData, hNext, hCrashed, hResult, hSeen>>

\* Collect: fetchJson
HarnessFetch ==
    /\ hPc = "fetch" /\ ~hCrashed
    /\ \E b \in 1..Len(HarnessBodies) : hData' = HarnessBodies[b]
    /\ hNext' = 1
    /\ hPc' = "scrape"
    /\ UNCHANGED <<hConfig, hResetOnTick, hReg, hCrashed, hResult, hSeen>>

\* Collect: fetchJson fails, Collect returns
HarnessFetchError ==
    /\ hPc = "fetch" /\ ~hCrashed
    /\ hPc' = "idle"
    /\ hResult' = hReg
    /\ UNCHANGED <<hConfig, hResetOnTick, hReg, hData, hNext, hCrashed, hSeen>>

\* Collect: one scraper of the loop
HarnessScrape ==
    /\ hPc = "scrape" /\ ~hCrashed
    /\ hNext <= Len(hConfig)
    /\ hReg' = Scrape(hConfig[hNext], hData, Scraped(hReg)).reg
    /\ hCrashed' = Scrape(hConfig[hNext], hData, Scraped(hReg)).crashed
    /\ hNext' = hNext + 1
    /\ UNCHANGED <<hConfig, hResetOnTick, hPc, hData, hResult, hSeen>>

\* Collect: the loop is over
HarnessCollected ==
    /\ hPc = "scrape" /\ ~hCrashed
    /\ hNext > Len(hConfig)
    /\ hPc' = "idle"
    /\ hResult' = hReg
    /\ UNCHANGED <<hConfig, hResetOnTick, hReg, hData, hNext, hCrashed, hSeen>>

\* promhttp.Handler gathers the registry for a request of the metrics path
HarnessServe ==
    /\ hPc # "start" /\ ~hCrashed
    /\ hSeen' = [scraped |-> TRUE, metrics |-> hReg, finished |-> hResult]
    /\ UNCHANGED <<hConfig, hResetOnTick, hReg, hPc, hData, hNext, hCrashed,
                   hResult>>

(***************************************************************************)
(* Collector.Collect over several modules, each with its own endpoint.     *)
(***************************************************************************)
MaxModules == 3

Module(endpoint, scrapers) == [endpoint |-> endpoint, scrapers |-> scrapers]

\* Init registers every mapping's vectors, so no two modules share a name
ModulePool ==
    <<Module("http://a/", DollarExample),
      Module("http://b/",
             <<ScrapeMetric("first_boolean", "value",
                            Dollar("$.values[*].some_boolean",
                                   <<Key("values"), AnyIndex, Key("some_boolean")>>),
                            {}, {})>>),
      Module("http://c/",
             <<ScrapeMetric("scalar", "object",
                            Dollar("$.counter", <<Key("counter")>>),
                            {}, {<<"active", Fixed("1")>>})>>)>>

Distinct(ixs) == \A a, b \in 1..Len(ixs) : a # b => ixs[a] # ixs[b]

Collected(reg, alive, ran) == [reg |-> reg, crashed |-> ~alive, ran |-> ran]

\* the inner loop: every scraper of the module on its body
RECURSIVE ModuleScrapers(_, _, _, _, _)
ModuleScrapers(module, json, i, j, out) ==
    IF j > Len(module.scrapers) \/ out.crashed THEN out
    ELSE ModuleScrapers(module, json, i, j + 1,
             Collected(Scrape(module.scrapers[j], json, Scraped(out.reg)).reg,
                       ~Scrape(module.scrapers[j], json, Scraped(out.reg)).crashed,
                       out.ran \cup {<<i, j>>}))

\* the outer loop: a module whose fetch fails makes Collect return
RECURSIVE ModulesCollect(_, _, _, _)
ModulesCollect(modules, fetches, i, out) ==
    IF i > Len(modules) \/ out.crashed THEN out
    ELSE IF fetches[i] = 0 THEN out
    ELSE ModulesCollect(modules, fetches, i + 1,
             ModuleScrapers(modules[i], HarnessBodies[fetches[i]], i, 1, out))

ModulesInit ==
    /\ \E ixs \in IndexSeqs(Len(ModulePool), MaxModules) :
           /\ Distinct(ixs)
           /\ mModules = [i \in 1..Len(ixs) |-> ModulePool[ixs[i]]]
    /\ mFetches = [i \in 1..Len(mModules) |-> 0]
    /\ mReg = {}
    /\ mRan = {}
    /\ mCrashed = FALSE
    /\ mCollected = FALSE

ModulesUnused ==
    /\ mModules = <<>>
    /\ mFetches = <<>>
    /\ mReg = {}
    /\ mRan = {}
    /\ mCrashed = FALSE
    /\ mCollected = FALSE

\* one Collect; fetches[i] is the body module i's endpoint answers with, 0 when
\* fetchJson on it fails
ModulesCollectCall ==
    /\ ~mCrashed
    /\ mFetches' \in [1..Len(mModules) -> 0..Len(HarnessBodies)]
    /\ mReg' = ModulesCollect(mModules, mFetches', 1, Collected(mReg, TRUE, {})).reg
    /\ mRan' = ModulesCollect(mModules, mFetches', 1, Collected(mReg, TRUE, {})).ran
    /\ mCrashed' =
           ModulesCollect(mModules, mFetches', 1, Collected(mReg, TRUE, {})).crashed
    /\ mCollected' = TRUE
    /\ UNCHANGED mModules

RestUnused ==
    /\ CelUnused /\ SanitizeIntUnused /\ TzInit /\ FetchJSONUnused
    /\ DynamicUnused /\ HarnessUnused /\ ModulesUnused

(***************************************************************************)
(* Specifications                                                          *)
(***************************************************************************)
SanitizeInit ==
    /\ sanIn \in SanInputs
    /\ sanOut = [val |-> Fin(FALSE, 0, 0), err |-> FALSE]
    /\ sanPc = "call"

SanitizeUnused ==
    /\ sanIn = ""
    /\ sanOut = [val |-> Fin(FALSE, 0, 0), err |-> FALSE]
    /\ sanPc = "unused"

ProbeUnused ==
    /\ cfg = ConfigOf(<<>>)
    /\ ProbeIdle

SanitizeCall ==
    /\ sanPc = "call"
    /\ sanOut' = SanitizeValue(sanIn)
    /\ sanPc' = "done"
    /\ UNCHANGED sanIn

vars == <<sanVars, probeVars, convVars, earlier, jqVars, scrapeVars, restVars>>

\* the groups of the handlers and calls above
firstVars == <<sanVars, probeVars, convVars, earlier, jqVars, scrapeVars>>

FirstUnused ==
    /\ SanitizeUnused
    /\ ProbeUnused
    /\ ConvertUnused
    /\ earlier = NoEarlier
    /\ TransformUnused
    /\ ScrapeUnused

\* one call of SanitizeValue on any input
InitSanitize ==
    SanitizeInit /\ ProbeUnused /\ ConvertUnused /\ earlier = NoEarlier /\ RestUnused
        /\ TransformUnused /\ ScrapeUnused

NextSanitize ==
    SanitizeCall
        /\ UNCHANGED <<probeVars, convVars, earlier, jqVars, scrapeVars, restVars>>

SpecSanitize == InitSanitize /\ [][NextSanitize]_vars

\* one extracted text through the value converter
InitConvert ==
    ConvertInit /\ SanitizeUnused /\ ProbeUnused /\ earlier = NoEarlier /\ RestUnused
        /\ TransformUnused /\ ScrapeUnused

NextConvert ==
    ConvertCall
        /\ UNCHANGED <<sanVars, probeVars, earlier, jqVars, scrapeVars, restVars>>

\* one call of Transform on any input and pipeline
InitTransform ==
    TransformInit /\ SanitizeUnused /\ ProbeUnused /\ ConvertUnused
        /\ earlier = NoEarlier /\ ScrapeUnused /\ RestUnused

NextTransform ==
    Transform
        /\ UNCHANGED <<sanVars, probeVars, convVars, earlier, scrapeVars, restVars>>

SpecTransform == InitTransform /\ [][NextTransform]_vars

\* the ticking collector of the '$' dialect
InitScrape ==
    ScrapeInit /\ SanitizeUnused /\ ProbeUnused /\ ConvertUnused
        /\ earlier = NoEarlier /\ TransformUnused /\ RestUnused

besideScrape == <<sanVars, probeVars, convVars, earlier, jqVars, restVars>>

NextScrape ==
    \/ ScrapeTick /\ UNCHANGED besideScrape
    \/ ScrapeTickFetchError /\ UNCHANGED besideScrape

SpecScrape == InitScrape /\ [][NextScrape]_vars

\* probes of the '$' dialect's handler
InitGauge ==
    GaugeInit /\ SanitizeUnused /\ ProbeUnused /\ ConvertUnused
        /\ earlier = NoEarlier /\ TransformUnused /\ RestUnused

besideGauge == <<sanVars, convVars, earlier, jqVars, restVars>>

NextGauge ==
    \/ GaugeRequest /\ UNCHANGED besideGauge
    \/ GaugeBuild /\ UNCHANGED besideGauge
    \/ ProbeTarget /\ UNCHANGED <<besideGauge, scrapeVars>>
    \/ GaugeFetchError /\ UNCHANGED besideGauge
    \/ GaugeFetch /\ UNCHANGED besideGauge
    \/ GaugeReturn /\ UNCHANGED besideGauge

SpecGauge == InitGauge /\ [][NextGauge]_vars

SpecConvert == InitConvert /\ [][NextConvert]_vars

\* what a probe leaves alone
besideHandler == <<sanVars, convVars, jqVars, scrapeVars, restVars>>

besideProbe == <<besideHandler, earlier>>

\* probes against one loaded configuration
Init ==
    ProbeInit /\ SanitizeUnused /\ ConvertUnused /\ earlier = NoEarlier /\ RestUnused
        /\ TransformUnused /\ ScrapeUnused

Next ==
    \/ ProbeRequest /\ UNCHANGED besideProbe
    \/ ProbeModule /\ UNCHANGED besideProbe
    \/ ProbeBuild /\ UNCHANGED besideProbe
    \/ ProbeTarget /\ UNCHANGED besideProbe
    \/ ProbeFetchError /\ UNCHANGED besideProbe
    \/ ProbeFetch /\ UNCHANGED besideProbe
    \/ ProbeServe /\ UNCHANGED besideProbe
    \/ ProbeReturn /\ UNCHANGED besideProbe

Spec == Init /\ [][Next]_vars

\* probes one after another, with the history of the one before
InitProbes ==
    /\ \E ixs \in IndexSeqs(Len(MetricPool), 1) : cfg = ConfigOf(ixs)
    /\ ProbeIdle
    /\ SanitizeUnused
    /\ ConvertUnused
    /\ TransformUnused
    /\ ScrapeUnused
    /\ earlier = NoEarlier
    /\ RestUnused

ProbeReturnNoted ==
    /\ ProbeReturn
    /\ earlier' = [status |-> resp.status, data |-> fetchedData,
                   collected |-> collected]

NextProbes ==
    \/ ProbeRequest /\ UNCHANGED besideProbe
    \/ ProbeModule /\ UNCHANGED besideProbe
    \/ ProbeBuild /\ UNCHANGED besideProbe
    \/ ProbeTarget /\ UNCHANGED besideProbe
    \/ ProbeFetchError /\ UNCHANGED besideProbe
    \/ ProbeFetch /\ UNCHANGED besideProbe
    \/ ProbeServe /\ UNCHANGED besideProbe
    \/ ProbeReturnNoted /\ UNCHANGED besideHandler

SpecProbes == InitProbes /\ [][NextProbes]_vars

\* one call of extractValueCEL on any document and expression
InitCel ==
    CelInit /\ FirstUnused /\ SanitizeIntUnused /\ TzInit /\ FetchJSONUnused
        /\ DynamicUnused /\ HarnessUnused /\ ModulesUnused

NextCel == CelCall /\ UNCHANGED <<firstVars, intVars, tzVars, fjVars, dynVars, harVars, modVars>>

SpecCel == InitCel /\ [][NextCel]_vars

\* one call of SanitizeIntValue on any input
InitSanitizeInt ==
    SanitizeIntInit /\ FirstUnused /\ CelUnused /\ TzInit /\ FetchJSONUnused
        /\ DynamicUnused /\ HarnessUnused /\ ModulesUnused

NextSanitizeInt ==
    SanitizeIntCall /\ UNCHANGED <<firstVars, celVars, tzVars, fjVars, dynVars, harVars, modVars>>

SpecSanitizeInt == InitSanitizeInt /\ [][NextSanitizeInt]_vars

\* probes whose descriptors carry timestamps, one Collect after another
InitTimezone ==
    TzInit /\ FirstUnused /\ CelUnused /\ SanitizeIntUnused /\ FetchJSONUnused
        /\ DynamicUnused /\ HarnessUnused /\ ModulesUnused

NextTimezone == TzGather /\ UNCHANGED <<firstVars, celVars, intVars, fjVars, dynVars, harVars, modVars>>

SpecTimezone == InitTimezone /\ [][NextTimezone]_vars

\* one call of FetchJSON for any module's list and any answer of the target
InitFetchJSON ==
    FetchJSONInit /\ FirstUnused /\ CelUnused /\ SanitizeIntUnused /\ TzInit
        /\ DynamicUnused /\ HarnessUnused /\ ModulesUnused

besideFetchJSON ==
    <<firstVars, celVars, intVars, tzVars, dynVars, harVars, modVars>>

NextFetchJSON ==
    \/ FetchJSONNoResponse /\ UNCHANGED besideFetchJSON
    \/ FetchJSONCall /\ UNCHANGED besideFetchJSON

SpecFetchJSON == InitFetchJSON /\ [][NextFetchJSON]_vars

\* two collections of the same descriptors over the same data
InitDynamic ==
    DynamicInit /\ FirstUnused /\ CelUnused /\ SanitizeIntUnused /\ TzInit
        /\ FetchJSONUnused /\ HarnessUnused /\ ModulesUnused

NextDynamic ==
    DynamicGather
        /\ UNCHANGED <<firstVars, celVars, intVars, tzVars, fjVars, harVars,
                       modVars>>

SpecDynamic == InitDynamic /\ [][NextDynamic]_vars

\* the harness with its ticker and its metrics endpoint
InitHarness ==
    HarnessInit /\ FirstUnused /\ CelUnused /\ SanitizeIntUnused /\ TzInit
        /\ FetchJSONUnused /\ DynamicUnused /\ ModulesUnused

besideHarness == <<firstVars, celVars, intVars, tzVars, fjVars, dynVars, modVars>>

NextHarness ==
    \/ HarnessFirstCollect /\ UNCHANGED besideHarness
    \/ HarnessFirstFetchError /\ UNCHANGED besideHarness
    \/ HarnessTick /\ UNCHANGED besideHarness
    \/ HarnessFetch /\ UNCHANGED besideHarness
    \/ HarnessFetchError /\ UNCHANGED besideHarness
    \/ HarnessScrape /\ UNCHANGED besideHarness
    \/ HarnessCollected /\ UNCHANGED besideHarness
    \/ HarnessServe /\ UNCHANGED besideHarness

SpecHarness == InitHarness /\ [][NextHarness]_vars

\* collections over several modules
InitModules ==
    ModulesInit /\ FirstUnused /\ CelUnused /\ SanitizeIntUnused /\ TzInit
        /\ FetchJSONUnused /\ DynamicUnused /\ HarnessUnused

NextModules ==
    ModulesCollectCall
        /\ UNCHANGED <<firstVars, celVars, intVars, tzVars, fjVars, dynVars,
                       harVars>>

SpecModules == InitModules /\ [][NextModules]_vars

(***************************************************************************)
(* Properties of SanitizeValue (SpecSanitize)                              *)
(***************************************************************************)
One == Fin(FALSE, 1, 0)

Zero == Fin(FALSE, 0, 0)

\* C1: SanitizeValue applies three tiers, the first success wins: a text that
\* parses as a float gives that number; otherwise an accepted boolean literal
\* gives 1.0 or 0.0; otherwise "<nil>" gives NaN without an error; otherwise an
\* error.  "1234" gives 1234.0; "abcd", "{}", "[]", "" and "''" give an error.
C1_SanitizeTiers ==
    sanPc = "done" =>
        LET f == ParseFloat(sanIn)
            b == ParseBool(sanIn)
        IN /\ f.ok => sanOut = [val |-> f.val, err |-> FALSE]
           /\ ~f.ok /\ b.ok =>
                  sanOut = [val |-> IF b.val THEN One ELSE Zero, err |-> FALSE]
           /\ ~f.ok /\ ~b.ok /\ sanIn = "<nil>" =>
                  ~sanOut.err /\ sanOut.val.k = "nan"
           /\ ~f.ok /\ ~b.ok /\ sanIn # "<nil>" => sanOut.err
           /\ sanIn = "1234" => sanOut = [val |-> Fin(FALSE, 1234, 0), err |-> FALSE]
           /\ sanIn = "1234.5" => sanOut = [val |-> Fin(FALSE, 12345, -1), err |-> FALSE]
           /\ sanIn \in {"1", "T", "true"} => sanOut = [val |-> One, err |-> FALSE]
           /\ sanIn \in {"0", "F", "false"} => sanOut = [val |-> Zero, err |-> FALSE]
           /\ sanIn \in {"abcd", "{}", "[]", "", "''"} => sanOut.err

C1_Witness ==
    sanPc = "done" /\ sanIn = "<nil>" /\ ~sanOut.err /\ sanOut.val.k = "nan"

\* C2 as stated: every upper/lower-case spelling of "true" yields 1.0 and every
\* spelling of "false" yields 0.0, with no error.
C2_EverySpelling ==
    sanPc = "done" =>
        /\ ToLower(sanIn) = "true" => sanOut = [val |-> One, err |-> FALSE]
        /\ ToLower(sanIn) = "false" => sanOut = [val |-> Zero, err |-> FALSE]

\* C2 as amended: of the upper/lower-case spellings of the two words, exactly
\* true, TRUE, True yield 1.0 and false, FALSE, False yield 0.0 with no error;
\* every other spelling (tRuE, fALSE, ...) is an error.
C2_AcceptedSpellings ==
    sanPc = "done" =>
        /\ ToLower(sanIn) = "true" =>
               IF sanIn \in {"true", "TRUE", "True"}
               THEN sanOut = [val |-> One, err |-> FALSE]
               ELSE sanOut.err
        /\ ToLower(sanIn) = "false" =>
               IF sanIn \in {"false", "FALSE", "False"}
               THEN sanOut = [val |-> Zero, err |-> FALSE]
               ELSE sanOut.err

C2_Witness == sanPc = "done" /\ sanIn = "tRuE" /\ sanOut.err

(***************************************************************************)
(* Properties of probes (Spec)                                             *)
(***************************************************************************)
Last(seq) == seq[Len(seq)]

\* CreateMetricsList has returned for the requested module
Built == pc \in {"target", "fetch", "serve"} \/ (pc = "done" /\ moduleName \in DOMAIN cfg)

\* the registry has been gathered: Collect has run on the fetched document
Served == pc = "done" /\ resp.status \in {StatusOK, StatusInternalServerError}

IsDocument(data, doc) == data.t = doc.t /\ MarshalJSON(data) = MarshalJSON(doc)

\* the value a sample carries for a label name
LabelValue(sample, name) ==
    sample.labelValues[CHOOSE i \in 1..Len(sample.desc.variableLabels) :
                           sample.desc.variableLabels[i] = name]

SamplesOf(samples, fqName) ==
    {i \in 1..Len(samples) : samples[i].desc.fqName = fqName}

\* a path of one list node that matches several nodes of the document
MatchesSeveral(path, data) ==
    /\ data.t # "invalid"
    /\ path.ok
    /\ Len(path.nodes) = 1
    /\ path.nodes[1].n = "list"
    /\ ~walk(data, path.nodes[1]).err
    /\ Len(walk(data, path.nodes[1]).vals) > 1

\* C3: when the scalar path of a value descriptor matches several nodes of the
\* fetched document, extractValue returns the text of the last match only
C3_LastMatchWins ==
    pc = "serve" =>
        \A p \in 1..Len(jsonMetrics) :
            (/\ jsonMetrics[p].Type = ValueScrape
             /\ MatchesSeveral(jsonMetrics[p].KeyJSONPath, fetchedData))
            => extractValue(jsonMetrics[p].EngineType, fetchedData,
                            jsonMetrics[p].KeyJSONPath, FALSE).text
               = evalToText(Last(walk(fetchedData,
                                      jsonMetrics[p].KeyJSONPath.nodes[1]).vals))

ExampleProbed ==
    /\ pc = "done"
    /\ moduleName = "default"
    /\ cfg = ExampleConfig
    /\ fetched
    /\ resp.status # StatusServiceUnavailable
    /\ IsDocument(fetchedData, ExampleData)

SubValueSample(samples, sub, id, value) ==
    Cardinality({i \in SamplesOf(samples, "example_value_" \o sub) :
                    /\ LabelValue(samples[i], "id") = id
                    /\ LabelValue(samples[i], "environment") = "beta"
                    /\ samples[i].value = value}) = 1

\* C4: a probe of the README's module on the README's document answers 200 with
\* exactly seven samples: example_global_value 1234, and for id-A and id-C each
\* one active (1, 1), one count (1, 3) and one boolean (1, 0); none carries id-B
C4_ExampleRoundTrip ==
    ExampleProbed =>
        /\ resp.status = StatusOK
        /\ resp.body = collected
        /\ Len(collected) = 7
        /\ \E i \in 1..Len(collected) :
              /\ SamplesOf(collected, "example_global_value") = {i}
              /\ collected[i].value = Fin(FALSE, 1234, 0)
              /\ LabelValue(collected[i], "environment") = "beta"
              /\ LabelValue(collected[i], "location") = "planet-mars"
        /\ \A sub \in {"active", "count", "boolean"} :
              Cardinality(SamplesOf(collected, "example_value_" \o sub)) = 2
        /\ SubValueSample(collected, "active", "id-A", One)
        /\ SubValueSample(collected, "active", "id-C", One)
        /\ SubValueSample(collected, "count", "id-A", One)
        /\ SubValueSample(collected, "count", "id-C", Fin(FALSE, 3, 0))
        /\ SubValueSample(collected, "boolean", "id-A", One)
        /\ SubValueSample(collected, "boolean", "id-C", Zero)
        /\ \A i \in 1..Len(collected) : \A x \in 1..Len(collected[i].labelValues) :
              collected[i].labelValues[x] # "id-B"

C4_Witness == ExampleProbed /\ resp.status = StatusOK /\ Len(resp.body) = 7

\* the descriptors of configured metric i are a block of the list, in the
\* module's order
DescCount(metric) ==
    IF metric.Type = ValueScrape THEN 1 ELSE Cardinality(DOMAIN metric.Values)

RECURSIVE BlockStart(_, _)
BlockStart(conf, i) ==
    IF i = 1 THEN 0 ELSE BlockStart(conf, i - 1) + DescCount(conf[i - 1])

Block(conf, descs, i) ==
    SubSeq(descs, BlockStart(conf, i) + 1, BlockStart(conf, i) + DescCount(conf[i]))

Configured == cfg[moduleName].Metrics

\* the positions of the descriptors with a name
DescsNamed(descs, fqName) == {p \in 1..Len(descs) : descs[p].Desc.fqName = fqName}

DescriptorFor(d, metric, k) ==
    /\ d.Type = ObjectScrape
    /\ d.Desc.fqName = metric.Name \o "_" \o k
    /\ d.ValueJSONPath = metric.Values[k]
    /\ d.KeyJSONPath = metric.Path

\* C5: a successful CreateMetricsList gives, for every object metric, exactly one
\* descriptor per key k of Values, named <name>_<k>, with ValueJSONPath Values[k]
\* and the metric's Path as key path (none for empty Values), and for every value
\* metric exactly one descriptor named with the metric's name
C5_OneDescriptorPerValue ==
    (Built /\ ~buildErr.failed) =>
        /\ Len(jsonMetrics) = BlockStart(Configured, Len(Configured) + 1)
        /\ \A i \in 1..Len(Configured) :
              IF Configured[i].Type = ValueScrape
              THEN /\ Len(Block(Configured, jsonMetrics, i)) = 1
                   /\ Block(Configured, jsonMetrics, i)[1].Type = ValueScrape
                   /\ Block(Configured, jsonMetrics, i)[1].Desc.fqName = Configured[i].Name
                   /\ Block(Configured, jsonMetrics, i)[1].KeyJSONPath = Configured[i].Path
              ELSE /\ Len(Block(Configured, jsonMetrics, i))
                         = Cardinality(DOMAIN Configured[i].Values)
                   /\ \A k \in DOMAIN Configured[i].Values :
                         Cardinality(DescsNamed(Block(Configured, jsonMetrics, i),
                                                   Configured[i].Name \o "_" \o k)) = 1
                   /\ \A p \in 1..Len(Block(Configured, jsonMetrics, i)) :
                         \E k \in DOMAIN Configured[i].Values :
                             DescriptorFor(Block(Configured, jsonMetrics, i)[p],
                                           Configured[i], k)

C5_Witness ==
    /\ pc = "target"
    /\ ~buildErr.failed
    /\ Len(Configured) = 2
    /\ Configured[1].Type = ObjectScrape
    /\ DOMAIN Configured[1].Values = {"count", "flag"}
    /\ Configured[2].Type = ObjectScrape
    /\ DOMAIN Configured[2].Values = {}
    /\ Len(jsonMetrics) = 2
    /\ jsonMetrics[1].Desc.fqName = "item_flag"
    /\ jsonMetrics[2].Desc.fqName = "item_count"

\* the configured metric whose block holds position p of the descriptor list
MetricAt(conf, p) ==
    conf[CHOOSE i \in 1..Len(conf) :
            BlockStart(conf, i) < p /\ p <= BlockStart(conf, i) + DescCount(conf[i])]

\* label name x of descriptor d and label path x of d are one entry of Labels
ParallelLabels(d, metric) ==
    /\ Len(d.Desc.variableLabels) = Len(d.LabelsJSONPaths)
    /\ Len(d.Desc.variableLabels) = Cardinality(DOMAIN metric.Labels)
    /\ {d.Desc.variableLabels[x] : x \in 1..Len(d.Desc.variableLabels)}
           = DOMAIN metric.Labels
    /\ \A x \in 1..Len(d.LabelsJSONPaths) :
           d.LabelsJSONPaths[x] = metric.Labels[d.Desc.variableLabels[x]]

\* the text extractLabels attaches for a label path
ExpectedLabel(metric, data, name) ==
    IF extractValue(metric.Engine, data, metric.Labels[name], FALSE).err THEN ""
    ELSE extractValue(metric.Engine, data, metric.Labels[name], FALSE).text

\* every label value of the sample is the one extracted from data by the path
\* configured for the label name at the same position
LabelsFrom(sample, metric, data) ==
    /\ Len(sample.labelValues) = Len(sample.desc.variableLabels)
    /\ \A x \in 1..Len(sample.labelValues) :
           sample.labelValues[x]
               = ExpectedLabel(metric, data, sample.desc.variableLabels[x])

\* the elements the object branch iterates over (none when extraction failed)
ElementsIn(values) ==
    IF values.err THEN <<>>
    ELSE IF Len(values.json) # 1 THEN <<>>
    ELSE values.json[1].v

ElementsOf(d, data) ==
    ElementsIn(extractValue(d.EngineType, data, d.KeyJSONPath, TRUE))

\* the samples carrying a descriptor, as positions of the collected sequence
Carrying(desc) == {s \in 1..Len(collected) : collected[s].desc = desc}

\* the samples of descriptor d carry labels extracted from the document (value
\* type) or from one of the elements (object type)
SamplesLabelled(d, metric, elems) ==
    \A s \in Carrying(d.Desc) :
        IF d.Type = ValueScrape
        THEN LabelsFrom(collected[s], metric, fetchedData)
        ELSE \E e \in 1..Len(elems) : LabelsFrom(collected[s], metric, elems[e])

\* C6: in every descriptor built, the label names and LabelsJSONPaths have the
\* same length and position x of both is the same entry of the metric's Labels,
\* whatever order the map was visited in; every sample collected carries at
\* position x the value extracted by the path of the label name at position x
C6_LabelsParallel ==
    (Built /\ ~buildErr.failed) =>
        \A p \in 1..Len(jsonMetrics) :
            /\ ParallelLabels(jsonMetrics[p], MetricAt(Configured, p))
            /\ Served => SamplesLabelled(jsonMetrics[p], MetricAt(Configured, p),
                                         ElementsOf(jsonMetrics[p], fetchedData))

C6_Witness ==
    /\ Served
    /\ ~buildErr.failed
    /\ \E s \in 1..Len(collected) :
          /\ collected[s].desc.variableLabels = <<"loc", "env">>
          /\ collected[s].labelValues = <<"mars", "beta">>

KnownTypes == {ValueScrape, ObjectScrape}

Offending == {i \in 1..Len(Configured) : Configured[i].Type \notin KnownTypes}

FirstOffending == CHOOSE i \in Offending : \A j \in Offending : i <= j

\* C7: CreateMetricsList returns an error naming the first metric whose type is
\* neither value nor object, and an empty descriptor list, whenever the module
\* has such a metric, valid metrics before it or not; without one it succeeds
C7_UnknownTypeAborts ==
    Built =>
        IF Offending # {}
        THEN /\ buildErr.failed
             /\ buildErr.name = Configured[FirstOffending].Name
             /\ buildErr.type = Configured[FirstOffending].Type
             /\ jsonMetrics = <<>>
        ELSE ~buildErr.failed

C7_Witness ==
    /\ pc = "target"
    /\ Len(Configured) = 2
    /\ Configured[1].Type = ObjectScrape
    /\ Configured[1].Name = "item"
    /\ Configured[2].Type = "objects"
    /\ buildErr = [failed |-> TRUE, type |-> "objects", name |-> "typo"]
    /\ jsonMetrics = <<>>

\* C8: once CreateMetricsList has failed for the probe's module, the target is
\* not fetched, nothing is collected and the probe is not answered 200
C8_BuildFailureRejects ==
    buildErr.failed =>
        /\ ~fetched
        /\ collected = <<>>
        /\ resp.status # StatusOK

\* key-path extraction or value sanitization fails for the descriptor
Fails(d, data) ==
    IF d.Type = ValueScrape
    THEN \/ extractValue(d.EngineType, data, d.KeyJSONPath, FALSE).err
         \/ SanitizeValue(extractValue(d.EngineType, data, d.KeyJSONPath,
                                       FALSE).text).err
    ELSE extractValue(d.EngineType, data, d.KeyJSONPath, TRUE).err

Succeeding(data) == SelectSeq(jsonMetrics, LAMBDA d : ~Fails(d, data))

\* C9: the samples of a probe are those of the descriptors that do not fail, each
\* collected on its own and in the list's order, and none of them carries the
\* descriptor of a failing one
C9_FailingDescriptorIsolated ==
    Served =>
        /\ collected = Flatten([i \in 1..Len(Succeeding(fetchedData)) |->
                           CollectMetric(Succeeding(fetchedData)[i], fetchedData)])
        /\ \A p \in 1..Len(jsonMetrics) :
              Fails(jsonMetrics[p], fetchedData) =>
                  \A s \in 1..Len(collected) :
                      collected[s].desc # jsonMetrics[p].Desc

C9_Witness ==
    /\ Served
    /\ Len(jsonMetrics) = 2
    /\ jsonMetrics[1].Desc.fqName = "broken"
    /\ Fails(jsonMetrics[1], fetchedData)
    /\ ~Fails(jsonMetrics[2], fetchedData)
    /\ Len(collected) = 1
    /\ collected[1].desc.fqName = "counter"

\* the element gives a sample: its value is extracted and sanitized
ElementGood(d, elem) ==
    /\ ~extractValue(d.EngineType, elem, d.ValueJSONPath, FALSE).err
    /\ ~SanitizeValue(extractValue(d.EngineType, elem, d.ValueJSONPath,
                                   FALSE).text).err

GoodOf(d, elems) == {e \in 1..Len(elems) : ElementGood(d, elems[e])}

GoodElements(d, data) == GoodOf(d, ElementsOf(d, data))

ElementValue(d, elem) ==
    SanitizeValue(extractValue(d.EngineType, elem, d.ValueJSONPath, FALSE).text).val

\* descriptor d, listed times times, has one sample per good element
OnePerGoodElement(d, elems, good, times) ==
    /\ Cardinality(Carrying(d.Desc)) = Cardinality(good) * times
    /\ \A e \in good :
           \E s \in Carrying(d.Desc) :
               /\ collected[s].value = ElementValue(d, elems[e])
               /\ collected[s].labelValues
                      = extractLabels(d.EngineType, elems[e], d.LabelsJSONPaths)

\* C10: an object descriptor emits one sample for every element of its collection
\* whose value is extracted and sanitized, and none for the others: N elements
\* with one malformed give N-1 samples, those of the elements before and after
C10_ElementIsolated ==
    Served =>
        \A p \in 1..Len(jsonMetrics) :
            jsonMetrics[p].Type = ObjectScrape =>
                OnePerGoodElement(jsonMetrics[p],
                    ElementsOf(jsonMetrics[p], fetchedData),
                    GoodElements(jsonMetrics[p], fetchedData),
                    Cardinality({q \in 1..Len(jsonMetrics) :
                                    jsonMetrics[q].Desc = jsonMetrics[p].Desc}))

C10_Witness ==
    /\ Served
    /\ Len(jsonMetrics) = 1
    /\ jsonMetrics[1].Desc.fqName = "active_count"
    /\ Len(ElementsOf(jsonMetrics[1], fetchedData)) = 3
    /\ GoodElements(jsonMetrics[1], fetchedData) = {1, 3}
    /\ Len(collected) = 2
    /\ collected[1].labelValues = <<"id-A">>
    /\ collected[2].labelValues = <<"id-C">>

\* the label values the descriptor's paths give on data: the extracted text, or
\* the empty string where the extraction fails
LabelsOrEmpty(d, data) ==
    [x \in 1..Len(d.LabelsJSONPaths) |->
        IF extractValue(d.EngineType, data, d.LabelsJSONPaths[x], FALSE).err THEN ""
        ELSE extractValue(d.EngineType, data, d.LabelsJSONPaths[x], FALSE).text]

\* a sample of d is collected with the value and the labels data gives
EmittedFrom(d, data) ==
    \E s \in Carrying(d.Desc) :
        /\ collected[s].value
               = SanitizeValue(extractValue(d.EngineType, data,
                     IF d.Type = ValueScrape THEN d.KeyJSONPath ELSE d.ValueJSONPath,
                     FALSE).text).val
        /\ collected[s].labelValues = LabelsOrEmpty(d, data)

SomeLabelFails(d, data) ==
    \E x \in 1..Len(d.LabelsJSONPaths) :
        extractValue(d.EngineType, data, d.LabelsJSONPaths[x], FALSE).err

ElementsEmitted(d, elems) ==
    \A e \in GoodOf(d, elems) : EmittedFrom(d, elems[e])

\* C11: a label path that fails to extract (on the document for a value
\* descriptor, on the element for an object descriptor) gives the empty string
\* for that label; the other labels keep their values and the sample is emitted
\* with the extracted value all the same
C11_LabelDegrades ==
    Served =>
        \A p \in 1..Len(jsonMetrics) :
            IF jsonMetrics[p].Type = ValueScrape
            THEN ~Fails(jsonMetrics[p], fetchedData)
                     => EmittedFrom(jsonMetrics[p], fetchedData)
            ELSE ElementsEmitted(jsonMetrics[p],
                                 ElementsOf(jsonMetrics[p], fetchedData))

C11_Witness ==
    /\ Served
    /\ Len(jsonMetrics) = 2
    /\ jsonMetrics[1].Desc.fqName = "counter"
    /\ jsonMetrics[1].Desc.variableLabels = <<"env", "loc">>
    /\ SomeLabelFails(jsonMetrics[1], fetchedData)
    /\ jsonMetrics[2].Desc.fqName = "active_count"
    /\ Len(collected) = 2
    /\ collected[1].labelValues = <<"beta", "">>
    /\ collected[1].value = Fin(FALSE, 5, 0)
    /\ collected[2].labelValues = <<"">>
    /\ collected[2].value = Fin(FALSE, 4, 0)

\* the timestamp a sample of d collected from data carries: that of the epoch
\* text when the path is set, extracts and reads as an int64, none otherwise
ExpectedStamp(d, data) ==
    IF d.EpochTimestampJSONPath = EmptyPath THEN NoTimestamp
    ELSE IF extractValue(d.EngineType, data, d.EpochTimestampJSONPath, FALSE).err
    THEN NoTimestamp
    ELSE IF ~ParseInt(extractValue(d.EngineType, data, d.EpochTimestampJSONPath,
                                   FALSE).text).ok
    THEN NoTimestamp
    ELSE [set |-> TRUE,
          ms |-> ParseInt(extractValue(d.EngineType, data,
                                       d.EpochTimestampJSONPath, FALSE).text).val]

StampedFrom(d, elems) ==
    \A s \in Carrying(d.Desc) :
        IF d.Type = ValueScrape
        THEN collected[s].ts = ExpectedStamp(d, fetchedData)
        ELSE \E e \in 1..Len(elems) : collected[s].ts = ExpectedStamp(d, elems[e])

\* C12: a sample whose descriptor has an epoch-timestamp path that fails to
\* extract, or extracts a text that is no int64, is emitted as it was built: its
\* value and labels, no timestamp; with an empty path likewise; only a path that
\* extracts an int64 stamps the sample
C12_TimestampFallback ==
    Served =>
        \A p \in 1..Len(jsonMetrics) :
            /\ StampedFrom(jsonMetrics[p], ElementsOf(jsonMetrics[p], fetchedData))
            /\ (jsonMetrics[p].Type = ValueScrape /\ ~Fails(jsonMetrics[p], fetchedData))
                   => EmittedFrom(jsonMetrics[p], fetchedData)

\* the epoch path gives "abcd": the sample is there, unstamped
C12_Witness ==
    /\ Served
    /\ Len(jsonMetrics) = 1
    /\ jsonMetrics[1].Desc.fqName = "stamped"
    /\ ~extractValue(jsonMetrics[1].EngineType, fetchedData,
                     jsonMetrics[1].EpochTimestampJSONPath, FALSE).err
    /\ extractValue(jsonMetrics[1].EngineType, fetchedData,
                    jsonMetrics[1].EpochTimestampJSONPath, FALSE).text = "abcd"
    /\ Len(collected) = 1
    /\ collected[1].value = One
    /\ collected[1].ts = NoTimestamp

(***************************************************************************)
(* Properties of the value converter (SpecConvert)                         *)
(***************************************************************************)
Converting == convPc = "done" /\ MapHas(converter, StatePath)

\* C13: with a converter configured for the value path the lookup ignores the
\* case of the extracted text: the text is replaced by the entry of its
\* lower-case form, and with the mapping {"active": "1"} every spelling of
\* "active" ("ACTIVE", "Active", "active", ...) is handed to SanitizeValue as "1"
\* and gives the sample value 1.
C13_LookupIgnoresCase ==
    /\ (Converting /\ MapHas(MapGet(converter, StatePath), ToLower(extracted)))
          => handed = MapGet(MapGet(converter, StatePath), ToLower(extracted))
    /\ (convPc = "done" /\ converter = ActiveConverter
           /\ extracted \in Spellings("active"))
          => handed = "1" /\ converted = [val |-> Fin(FALSE, 1, 0), err |-> FALSE]

C13_Witness ==
    /\ convPc = "done"
    /\ converter = ActiveConverter
    /\ extracted = "Active"
    /\ handed = "1"

\* C14: with a converter configured for the value path, a text that has no
\* entry in the mapping (not even by its lower-case form) is handed to
\* SanitizeValue character for character as extracted, so its sanitization
\* outcome is the one it has without a converter.
C14_UnmappedUnchanged ==
    (Converting /\ ~MapHas(MapGet(converter, StatePath), ToLower(extracted)))
        => handed = extracted /\ converted = SanitizeValue(extracted)

(***************************************************************************)
(* Properties of successive probes (SpecProbes)                            *)
(***************************************************************************)
Emits(d) == \E s \in 1..Len(collected) : collected[s].desc = d.Desc

\* C15: what a probe serves is a function of its module's configuration and of
\* the document it fetched, whatever the probe before it served: the samples are
\* those Collect gives for the descriptors built from the module on this
\* document, the response is made of them alone, and a value descriptor whose
\* data is extractable now emits even if it emitted nothing on the earlier probe.
C15_OwnInputsOnly ==
    Served =>
        /\ \E r \in CreateMetricsList(cfg[moduleName]) :
               collected = Collect(r.metrics, fetchedData)
        /\ resp = IF GatherFails(collected)
                  THEN [status |-> StatusInternalServerError, body |-> <<>>]
                  ELSE [status |-> StatusOK, body |-> collected]
        /\ \A p \in 1..Len(jsonMetrics) :
               (jsonMetrics[p].Type = ValueScrape
                    /\ ~Fails(jsonMetrics[p], fetchedData))
                   => Emits(jsonMetrics[p])

\* the counter emitted nothing on the probe before and emits now
C15_Witness ==
    /\ Served
    /\ cfg = ConfigOf(<<1>>)
    /\ earlier.status = StatusOK
    /\ earlier.collected = <<>>
    /\ Len(collected) = 1
    /\ collected[1].desc.fqName = "counter"

(***************************************************************************)
(* Properties of the probe's parameters (Spec)                             *)
(***************************************************************************)
Answered == pc = "done"

\* C16: a probe without a target parameter is answered 400 and FetchJSON is
\* never called for it, whatever the configuration: nothing is fetched at any
\* point of the request and nothing is collected or served.
C16_MissingTargetRejected ==
    (pc # "idle" /\ req.target = "") =>
        /\ ~fetched
        /\ pc \notin {"fetch", "serve"}
        /\ fetchedData.t = "invalid"
        /\ collected = <<>>
        /\ Answered => resp = [status |-> StatusBadRequest, body |-> <<>>]

\* the module is configured and its descriptors are built, yet nothing is fetched
C16_Witness ==
    /\ Answered
    /\ req.target = ""
    /\ moduleName \in DOMAIN cfg
    /\ Len(jsonMetrics) > 0
    /\ ~fetched
    /\ resp.status = StatusBadRequest

Selected == IF req.module = "" THEN "default" ELSE req.module

\* the probe went through: module configured, target given, body fetched
FetchSucceeded == Answered /\ fetched /\ resp.status # StatusServiceUnavailable

\* C17 as stated: the module parameter selects the module, "default" when it is
\* empty; an unconfigured module is answered 400 with nothing built or fetched;
\* a configured module whose fetch succeeds is answered 200.
C17_ModuleSelected200 ==
    /\ pc \notin {"idle", "module"} => moduleName = Selected
    /\ (Answered /\ moduleName \notin DOMAIN cfg) =>
           /\ resp = [status |-> StatusBadRequest, body |-> <<>>]
           /\ jsonMetrics = <<>> /\ buildErr = NoError
           /\ ~fetched /\ collected = <<>>
    /\ FetchSucceeded => resp.status = StatusOK

\* C17, amended: as above, but a configured module whose fetch succeeds is
\* answered 200 only if the registry gathers the collected samples; when two of
\* them share their name and label values the answer is 500.
C17_ModuleSelected ==
    /\ pc \notin {"idle", "module"} => moduleName = Selected
    /\ (Answered /\ moduleName \notin DOMAIN cfg) =>
           /\ resp = [status |-> StatusBadRequest, body |-> <<>>]
           /\ jsonMetrics = <<>> /\ buildErr = NoError
           /\ ~fetched /\ collected = <<>>
    /\ FetchSucceeded =>
           /\ moduleName \in DOMAIN cfg
           /\ resp.status = IF GatherFails(collected)
                            THEN StatusInternalServerError ELSE StatusOK

\* no module parameter, the default module is probed and answered 200
C17_Witness ==
    /\ FetchSucceeded
    /\ req.module = ""
    /\ moduleName = "default"
    /\ resp.status = StatusOK
    /\ Len(resp.body) > 0

(***************************************************************************)
(* Properties of JQTransformer.Transform (SpecTransform)                   *)
(***************************************************************************)
RECURSIVE Joined(_, _)
Joined(vals, k) ==
    IF k > Len(vals) THEN ""
    ELSE (IF k > 1 THEN "," ELSE "") \o MarshalJSON(vals[k]) \o Joined(vals, k + 1)

Runnable == jqData.t # "invalid" /\ jqQuery.ok

Yielded == jqRun(jqQuery.steps, 1, jqData)

ResultThenOrigins == Query(<<JqField("result"), JqIterate, JqField("origins"), JqIterate>>)

SelectPool(name) == Query(<<JqField("result"), JqIterate, JqSelect("name", name)>>)

\* C19: Transform returns the JSON array of the values the filter yields, in
\* yield order, and the text null when it yields nothing; when the input is not
\* JSON, the query does not parse or the filter yields an error, even after
\* values, it returns an error and no output, never a partial array.
C19_AllOrNothing ==
    jqPc = "done" =>
        /\ ~Runnable => jqOut = TransformErr
        /\ (Runnable /\ Yielded.err) => jqOut = TransformErr
        /\ (Runnable /\ ~Yielded.err /\ Len(Yielded.vals) = 0) =>
               jqOut = [out |-> "null", err |-> FALSE]
        /\ (Runnable /\ ~Yielded.err /\ Len(Yielded.vals) > 0) =>
               jqOut = [out |-> "[" \o Joined(Yielded.vals, 1) \o "]", err |-> FALSE]
        /\ jqOut.err => jqOut.out = ""
        \* the cases of the test
        /\ (jqQuery = SelectPool("pool2") /\ IsDocument(jqData, OnePool)) =>
               jqOut = [out |-> "null", err |-> FALSE]
        /\ (jqQuery = SelectPool("pool2") /\ IsDocument(jqData, TwoPools)) =>
               jqOut = [out |-> "[{\"name\":\"pool2\",\"origins\":[{\"healthy\":true,\"name\":\"origin3\"}]}]",
                        err |-> FALSE]
        /\ (jqQuery = ResultThenOrigins /\ IsDocument(jqData, NoOrigins)) =>
               jqOut = TransformErr

\* an error met after values were yielded
C19_Witness ==
    /\ jqPc = "done"
    /\ Runnable
    /\ jqQuery = ResultThenOrigins
    /\ Yielded.err
    /\ Len(Yielded.vals) > 0
    /\ jqOut = TransformErr

(***************************************************************************)
(* Properties of the '$' dialect's scrapers (SpecScrape)                   *)
(***************************************************************************)
Ticked == ~scCrashed /\ scData.t # "invalid"

BoolGauge(b) == IF b THEN Fin(FALSE, 1, 0) ELSE Fin(FALSE, 0, 0)

\* the gauge of sub-value v for element elem holds the element's boolean as 1 or 0
BooleanExported(obsc, v, elem) ==
    Gauge(MakeMetricName(obsc.Name, v[1]), ElementLabels(obsc, elem),
          BoolGauge(First(elem, v[2]).v)) \in scReg

BooleanSubValue(v, elem) ==
    /\ elem.t = "obj"
    /\ v[2].dynamic
    /\ Found(elem, v[2])
    /\ First(elem, v[2]).t = "bool"

Matched(obsc) ==
    {k \in 1..Len(EvalPathsInBytes(scData, obsc.Path.steps, 1)) : TRUE}

MatchedElement(obsc, k) == EvalPathsInBytes(scData, obsc.Path.steps, 1)[k]

\* C20: in the '$' dialect an object metric exports a dynamic sub-value that is
\* a JSON boolean as 1 for true and 0 for false, for every matched element: with
\* the example's configuration and data example_value_boolean is 1 for id-A and
\* 0 for id-C.
C20_BooleanSubValue ==
    Ticked =>
        /\ \A i \in 1..Len(scConfig) :
               scConfig[i].Type = "object" =>
                   \A v \in scConfig[i].Values : \A k \in Matched(scConfig[i]) :
                       BooleanSubValue(v, MatchedElement(scConfig[i], k))
                           => BooleanExported(scConfig[i], v,
                                              MatchedElement(scConfig[i], k))
        /\ (scConfig = DollarExample /\ IsDocument(scData, DollarData)) =>
               /\ Gauge("example_value_boolean",
                        {<<"environment", "beta">>, <<"id", "id-A">>},
                        Fin(FALSE, 1, 0)) \in scReg
               /\ Gauge("example_value_boolean",
                        {<<"environment", "beta">>, <<"id", "id-C">>},
                        Fin(FALSE, 0, 0)) \in scReg

(***************************************************************************)
(* Properties of a failing fetch (SpecGauge)                               *)
(***************************************************************************)
FetchFailed == pc = "done" /\ fetchErr # ""

\* C18: when fetching the target fails the probe is answered 503 and no
\* extraction begins: no gauge is set and no metric set is served.
C18_FetchFailure503 ==
    FetchFailed =>
        /\ resp.status = StatusServiceUnavailable
        /\ scReg = {}
        /\ collected = <<>>

(***************************************************************************)
(* Properties of Scrape's failures (SpecGauge)                             *)
(***************************************************************************)
\* C21: Scrape never panics: whatever the document and the configured
\* collectors (an empty key path, a dynamic label path that matches nothing),
\* every failure is a skipped collector, element or label and the call returns.
C21_ScrapeNeverPanics == ~scCrashed

(***************************************************************************)
(* Properties of the engine (Spec)                                         *)
(***************************************************************************)
UnknownEngines ==
    {i \in 1..Len(Configured) :
        Configured[i].Engine \notin {EngineTypeJSONPath, EngineTypeCEL}}

\* C22: a module with a metric whose engine is neither jsonpath nor cel makes
\* CreateMetricsList return a build error.
C22_UnknownEngineBuildError == (Built /\ UnknownEngines # {}) => buildErr.failed

(***************************************************************************)
(* Properties of extractValueCEL (SpecCel)                                 *)
(***************************************************************************)
\* the expression does not compile against the document's variables
CompileFails == CelUnmarshals(celData) /\ ~CelCompiles(celData, celExpr)

\* C23: extractValueCEL returns an error whenever the expression fails to
\* compile or type-check, never an extracted empty string without one.
C23_CompileFailureIsError == (celPc = "done" /\ CompileFails) => celOut.err

(***************************************************************************)
(* Properties of SanitizeIntValue (SpecSanitizeInt)                        *)
(***************************************************************************)
\* a text in the float grammar whose value is a whole number of at most
\* eighteen digits, well inside int64
WholeFloat(s) ==
    /\ Len(s) <= 15
    /\ ParseFloat(s).ok
    /\ ParseFloat(s).val.k = "fin"
    /\ ParseFloat(s).val.exp >= 0
    /\ NumDigits(ParseFloat(s).val.mant) + ParseFloat(s).val.exp <= 18

\* the boolean literals that are no numbers
BoolWords == (BoolTrueLiterals \cup BoolFalseLiterals) \ {"0", "1"}

\* C24: SanitizeIntValue accepts a text in the float grammar whose value is an
\* integer in the int64 range, rejects the boolean literals, and gives an
\* error for a value outside the int64 range.
C24_FloatGrammarAccepted ==
    intPc = "done" =>
        /\ WholeFloat(intIn) => ~intOut.err
        /\ intIn \in BoolWords => intOut.err
        /\ intIn \in {"-9223372036854775809", "99999999999999999999"} => intOut.err

(***************************************************************************)
(* Properties of the process's timezone (SpecTimezone)                     *)
(***************************************************************************)
\* C25: Collect leaves time.Local as it found it, the zone the process
\* started with, so that a descriptor without a configured timezone reads its
\* timestamps in that zone whatever was collected before.
C25_LocalUnchanged ==
    /\ Local = DefaultLocal
    /\ \A i \in 1..Len(tzSent) :
           (tzSent[i].desc.fqName = "stamped" /\ tzSent[i].ts.set)
               => tzSent[i].ts.zone = DefaultLocal

(***************************************************************************)
(* Properties of FetchJSON (SpecFetchJSON)                                 *)
(***************************************************************************)
\* FetchJSON has returned after the target answered
Answering == fjPc = "done" /\ fjStatus # 0

Listed == \E i \in 1..Len(fjCodes) : fjCodes[i] = fjStatus

\* C26: the answer is accepted exactly when its status is listed in
\* valid_status_codes, the list being non-empty, and exactly when it is 2xx,
\* the list being empty; a rejected status returns an error and no document.
C26_StatusAccepted ==
    Answering =>
        /\ fjOut.err # "status" <=>
               IF fjCodes # <<>> THEN Listed ELSE fjStatus \in 200..299
        /\ fjOut.err = "status" => fjOut.data = NoData

\* 404 is listed: the answer is accepted and its body returned
C26_Witness ==
    /\ Answering
    /\ fjCodes = <<200, 404>>
    /\ fjStatus = 404
    /\ fjOut = Fetched("", Bytes("{}"))

(***************************************************************************)
(* Properties of the labels handed to a gauge vector (SpecGauge)           *)
(***************************************************************************)
\* the documents or elements Scrape reads the collector's samples from
Visited(collector, json) ==
    IF collector.ValueJsonPath.text = "" THEN <<json>>
    ELSE IF collector.KeyJsonPath.text = "" THEN <<>>
    ELSE EvalPathsInBytes(json, collector.KeyJsonPath.steps, 1)

\* the value of the collector is read from the document or element
Sampled(collector, json) ==
    IF collector.ValueJsonPath.text = ""
    THEN GaugeExtractValue(json, collector.KeyJsonPath).ok
    ELSE GaugeExtractValue(json, collector.ValueJsonPath).ok

\* the labels are the configured names, a path that is not found giving ""
LabelsComplete(labels, json, configured) ==
    /\ {x[1] : x \in labels} = {x[1] : x \in configured}
    /\ \A x \in configured :
           (x[2].dynamic /\ ~Found(json, x[2])) => <<x[1], "">> \in labels

\* C27: the label set Scrape hands to the gauge vector holds exactly the
\* configured label names; a dynamic label whose path is not found is there
\* with the empty string as its value.
C27_LabelSetComplete ==
    (pc = "done" /\ fetched /\ fetchErr = "") =>
        \A i \in 1..Len(jsonMetrics) :
            \A k \in 1..Len(Visited(jsonMetrics[i], fetchedData)) :
                Sampled(jsonMetrics[i], Visited(jsonMetrics[i], fetchedData)[k])
                    => LabelsComplete(
                           GaugeExtractLabels(Visited(jsonMetrics[i], fetchedData)[k],
                                              jsonMetrics[i].LabelsJsonPath),
                           Visited(jsonMetrics[i], fetchedData)[k],
                           jsonMetrics[i].LabelsJsonPath)

(***************************************************************************)
(* Properties of a repeated collection (SpecDynamic)                       *)
(***************************************************************************)
\* C28: two collections of the same descriptors over the same document send
\* the same samples, a "{__name__}" label and the search of an element's
\* nested values included.
C28_CollectDeterministic == dynRuns = 2 => dynSent = dynBefore

(***************************************************************************)
(* Properties of the harness (SpecHarness)                                 *)
(***************************************************************************)
\* C29: with ResetOnTick, a scrape of the metrics path is served the registry
\* as a finished collection left it, never the registry between Reset and the
\* end of Collect.
C29_ScrapeSeesFinishedCollection ==
    (hResetOnTick /\ hSeen.scraped) => hSeen.metrics = hSeen.finished

(***************************************************************************)
(* Properties of the multi-module collection (SpecModules)                 *)
(***************************************************************************)
\* C30: a module whose endpoint answers has every one of its scrapers run in
\* the collection, whatever happened to the fetches of the modules before it.
C30_ModulesIndependent ==
    (mCollected /\ ~mCrashed)
        => \A i \in 1..Len(mModules) :
               mFetches[i] # 0
                   => \A j \in 1..Len(mModules[i].scrapers) : <<i, j>> \in mRan

====
